---- MODULE Spec2Model ----
(***************************************************************************)
(* A model of objtools' ObjectMask: the recursive field-mask tree, its     *)
(* path resolution, deep filtering and the static mask algebra.            *)
(*                                                                         *)
(* Values of the dynamically shaped object model are tagged records:       *)
(*   [s |-> kind]   a scalar (isScalar() is true of it)                    *)
(*   [m |-> f]      a plain object, f a function from its keys             *)
(*   [a |-> q]      an array, q the sequence of its elements               *)
(*   [e |-> kind]   an exception thrown by the call                        *)
(***************************************************************************)
EXTENDS Integers, Sequences, FiniteSets, TLC

VARIABLES
    op,      \* the operation called last ("new" after construction)
    mask,    \* this.mask of the ObjectMask the operation is called on
    arg,     \* the argument of the last call: a mask tree, an object or a path
    res,     \* what the last call returned (or the exception it threw)
    prev     \* this.mask as it was before the last call

vars == <<op, mask, arg, res, prev>>

----------------------------------------------------------------------------
(* The value model                                                         *)

Sc(kind) == [s |-> kind]
Mp(f) == [m |-> f]
Ar(q) == [a |-> q]
Thrown(kind) == [e |-> kind]

True == Sc("true")
False == Sc("false")
Undefined == Sc("undefined")
Null == Sc("null")
\* a Date object: the one truthy scalar that is not a boolean
Date == Sc("date")
\* a non-empty string or non-zero number held by a filtered object
Str == Sc("str")
EmptyObj == Mp(<<>>)
\* the number n, not zero
Num(n) == [s |-> "number", n |-> n]
\* the Date object of the instant t, in milliseconds
DateAt(t) == [s |-> "date", t |-> t]

isMap(x) == "m" \in DOMAIN x
isArray(x) == "a" \in DOMAIN x
isThrown(x) == "e" \in DOMAIN x

isScalar(value) == "s" \in DOMAIN value

\* JavaScript truthiness: objects are truthy; false, null and undefined are not
Truthy(x) == IF isScalar(x) THEN x.s \in {"true", "date", "str", "number"} ELSE TRUE

\* x || false
orFalse(x) == IF Truthy(x) THEN x ELSE False

\* typeof x === 'object'
typeofObject(x) == IF isScalar(x) THEN x.s \in {"null", "date"} ELSE TRUE

\* the property names of array positions 1, 2, ...
IndexKeys == <<"0", "1", "2", "3", "4">>

\* the keys a for-in loop over x visits
keysOf(x) ==
    IF isMap(x) THEN DOMAIN x.m
    ELSE IF isArray(x) THEN {IndexKeys[i] : i \in 1..Len(x.a)}
    ELSE {}

\* key in x
hasKey(x, key) == key \in keysOf(x)

\* x[key]: undefined for a missing property and for a property of a primitive
getKey(x, key) ==
    IF isMap(x) /\ key \in DOMAIN x.m THEN x.m[key]
    ELSE IF isArray(x) /\ key \in keysOf(x)
        THEN x.a[CHOOSE i \in 1..Len(x.a) : IndexKeys[i] = key]
    ELSE Undefined

\* x[key] = v on a plain object
setKey(x, key, v) == Mp((key :> v) @@ x.m)

\* delete x[key] on a plain object
deleteKey(x, key) == Mp([k \in DOMAIN x.m \ {key} |-> x.m[k]])

\* scalars are returned as they are, arrays and plain objects are rebuilt
RECURSIVE deepCopy(_)
deepCopy(obj) ==
    IF isScalar(obj) THEN obj
    ELSE IF isArray(obj) THEN Ar([i \in 1..Len(obj.a) |-> deepCopy(obj.a[i])])
    ELSE Mp([key \in DOMAIN obj.m |-> deepCopy(obj.m[key])])

\* lodash's isEqual on trees: the same keys with equal values
isEqual(x, y) == x = y

\* the exception a loop over the entries f ends with, if one of them threw
thrownIn(f) == {f[k] : k \in DOMAIN f} \cap {Thrown("Error"), Thrown("TypeError")}

RECURSIVE deepEquals(_, _)
deepEquals(x, y) ==
    IF isScalar(x) /\ isScalar(y) THEN x = y
    ELSE IF x \in {Null, Undefined} \/ y \in {Null, Undefined} THEN FALSE
    ELSE IF isArray(x) /\ isArray(y) THEN
        /\ Len(x.a) = Len(y.a)
        /\ \A i \in 1..Len(x.a) : deepEquals(x.a[i], y.a[i])
    ELSE IF ~isArray(x) /\ ~isArray(y) THEN
        \A key \in keysOf(x) \cup keysOf(y) : deepEquals(getKey(x, key), getKey(y, key))
    ELSE FALSE

----------------------------------------------------------------------------
(* Construction                                                            *)

RECURSIVE underscorizeArrays(_)
underscorizeArrays(tree) ==
    LET conv(submask) ==
            IF isArray(submask)
                THEN Mp("_" :> underscorizeArrays(getKey(submask, "0")))
            ELSE IF ~isScalar(submask) THEN underscorizeArrays(submask)
            ELSE submask
    IN  IF isMap(tree) THEN Mp([k \in DOMAIN tree.m |-> conv(tree.m[k])])
        ELSE IF isArray(tree) THEN Ar([i \in 1..Len(tree.a) |-> conv(tree.a[i])])
        ELSE tree

\* new ObjectMask(tree).mask
ObjectMask(tree) == underscorizeArrays(deepCopy(tree))

----------------------------------------------------------------------------
(* Path resolution                                                         *)

RECURSIVE resolvePath(_, _)
\* as resolvePath, with mask[key] || mask._ for the next mask: a false entry
\* falls back to the wildcard
resolvePathFalsyFallback(m, subpaths) ==
    IF subpaths # <<>> /\ ~isScalar(m)
        THEN LET key == Head(subpaths)
             IN  resolvePath(IF Truthy(getKey(m, key)) THEN getKey(m, key)
                                ELSE getKey(m, "_"),
                             Tail(subpaths))
        ELSE m

resolvePath(m, subpaths) ==
    IF subpaths # <<>> /\ ~isScalar(m)
        THEN LET key == Head(subpaths)
             IN  resolvePath(IF hasKey(m, key) THEN getKey(m, key) ELSE getKey(m, "_"),
                             Tail(subpaths))
        ELSE m

\* getSubMask(path).mask
getSubMask(m, path) == ObjectMask(orFalse(resolvePath(m, path)))

checkPath(m, path) == getSubMask(m, path) = True

----------------------------------------------------------------------------
(* Inversion and subtraction                                               *)

\* as sanitizeFalsies, without the test for a wildcard
sanitizeFalsiesAlways(obj) ==
    IF ~Truthy(getKey(obj, "_"))
        THEN Mp([key \in {k \in keysOf(obj) \ {"_"} : getKey(obj, k) # False}
                    |-> getKey(obj, key)])
        ELSE Mp([key \in {k \in keysOf(obj) : getKey(obj, k) # False}
                    |-> getKey(obj, key)])

\* shallowly removes falsey keys if obj does not have a wildcard
sanitizeFalsies(obj) ==
    IF ~Truthy(getKey(obj, "_"))
        THEN Mp([key \in {k \in keysOf(obj) \ {"_"} : getKey(obj, k) # False}
                    |-> getKey(obj, key)])
        ELSE obj

RECURSIVE invert(_)
\* as invert, without the wildcard a map node gains
invertNoWildcard(m) ==
    IF isScalar(m) THEN (IF Truthy(m) THEN False ELSE True)
    ELSE Mp([key \in keysOf(m) |-> invert(getKey(m, key))])

\* as invert, keeping a wildcard that became false
invertKeepsFalseWildcard(m) ==
    IF isScalar(m) THEN (IF Truthy(m) THEN False ELSE True)
    ELSE LET result == Mp([key \in keysOf(m) |-> invert(getKey(m, key))])
         IN  IF ~hasKey(result, "_") THEN setKey(result, "_", True)
             ELSE result

invert(m) ==
    IF isScalar(m) THEN (IF Truthy(m) THEN False ELSE True)
    ELSE LET result == Mp([key \in keysOf(m) |-> invert(getKey(m, key))])
         IN  IF ~hasKey(result, "_") THEN setKey(result, "_", True)
             ELSE IF ~Truthy(getKey(result, "_")) THEN deleteKey(result, "_")
             ELSE result

\* subtract(a, b) mutates a in place; the value is the tree it returns, or
\* the exception it throws (strict mode: a property of a primitive cannot
\* be assigned)
RECURSIVE subtract(_, _)
subtract(a, b) ==
    IF a = True THEN invert(b)
    ELSE IF a = False THEN False
    ELSE IF ~Truthy(a) THEN invert(b)
    ELSE IF ~Truthy(b) THEN a
    ELSE IF b = True \/ isEqual(a, b) THEN False
    ELSE IF isScalar(a) \/ isScalar(b) THEN Thrown("Error")
    ELSE
        LET bKeys == keysOf(b) \ {"_"}
            \* for (key in a) if (!(key in b) || key === '_') ...
            a1 == IF hasKey(b, "_")
                    THEN [key \in keysOf(a) |->
                            IF ~hasKey(b, key) \/ key = "_"
                                THEN subtract(getKey(a, key), getKey(b, "_"))
                                ELSE getKey(a, key)]
                    ELSE [key \in keysOf(a) |-> getKey(a, key)]
            sub(key) == subtract(getKey(Mp(a1), key), getKey(b, key))
            \* both have _ : a._[key] = subtract(a[key], b[key])
            wild == a1["_"]
            wildSet == [key \in bKeys |-> sub(key)]
            both == [key \in keysOf(a) |->
                        IF key = "_"
                            THEN (IF isScalar(wild) THEN wild
                                  ELSE Mp(wildSet @@ wild.m))
                        ELSE IF key \in bKeys /\ ~isScalar(a1[key]) /\ ~isScalar(sub(key))
                            THEN sub(key)
                        ELSE a1[key]]
            \* otherwise: a[key] = subtract(a[key], b[key])
            other == [key \in keysOf(b) |-> sub(key)] @@ a1
        IN  IF thrownIn(a1) # {} THEN CHOOSE t \in thrownIn(a1) : TRUE
            ELSE IF hasKey(a, "_") /\ hasKey(b, "_") THEN
                IF thrownIn(wildSet) # {} THEN CHOOSE t \in thrownIn(wildSet) : TRUE
                ELSE IF bKeys # {} /\ isScalar(wild) /\ wild # Date THEN Thrown("TypeError")
                ELSE sanitizeFalsies(Mp(both))
            ELSE
                IF thrownIn(other) # {} THEN CHOOSE t \in thrownIn(other) : TRUE
                ELSE sanitizeFalsies(Mp(other))

----------------------------------------------------------------------------
(* Filtering                                                               *)

RECURSIVE filterDeep(_, _)
\* as filterDeep, with mask[key] || mask._ for maskVal: a false entry falls
\* back to the wildcard
filterDeepFalsyFallback(obj, m) ==
    IF m = True THEN obj
    ELSE IF Truthy(m) /\ ~isScalar(obj) /\ ~isScalar(m) THEN
        LET maskVal(key) == IF Truthy(getKey(m, key)) THEN getKey(m, key)
                            ELSE getKey(m, "_")
            resultVal(key) == filterDeep(getKey(obj, key), orFalse(maskVal(key)))
        IN  IF isArray(obj)
                THEN Ar(SelectSeq([i \in 1..Len(obj.a) |-> resultVal(IndexKeys[i])],
                                  LAMBDA v : v # Undefined))
                ELSE Mp([key \in {k \in keysOf(obj) : resultVal(k) # Undefined}
                            |-> resultVal(key)])
    ELSE Undefined

\* as filterDeep, with resultObj[key] = resultVal for a sequence too: the kept
\* elements stay at their indices and the indices between them are holes
filterDeepSparse(obj, m) ==
    IF m = True THEN obj
    ELSE IF Truthy(m) /\ ~isScalar(obj) /\ ~isScalar(m) THEN
        LET maskVal(key) == IF hasKey(m, key) THEN getKey(m, key) ELSE getKey(m, "_")
            resultVal(key) == filterDeep(getKey(obj, key), orFalse(maskVal(key)))
            kept == {i \in 1..Len(obj.a) : resultVal(IndexKeys[i]) # Undefined}
            length == IF kept = {} THEN 0 ELSE CHOOSE i \in kept : \A j \in kept : j <= i
        IN  IF isArray(obj)
                THEN Ar([i \in 1..length |-> resultVal(IndexKeys[i])])
                ELSE Mp([key \in {k \in keysOf(obj) : resultVal(k) # Undefined}
                            |-> resultVal(key)])
    ELSE Undefined

\* as filterDeep, with resultObj.unshift(resultVal) for resultObj.push(resultVal)
filterDeepUnshift(obj, m) ==
    IF m = True THEN obj
    ELSE IF Truthy(m) /\ ~isScalar(obj) /\ ~isScalar(m) THEN
        LET maskVal(key) == IF hasKey(m, key) THEN getKey(m, key) ELSE getKey(m, "_")
            resultVal(key) == filterDeep(getKey(obj, key), orFalse(maskVal(key)))
        IN  IF isArray(obj)
                THEN Ar(SelectSeq([i \in 1..Len(obj.a) |->
                                    resultVal(IndexKeys[Len(obj.a) + 1 - i])],
                                  LAMBDA v : v # Undefined))
                ELSE Mp([key \in {k \in keysOf(obj) : resultVal(k) # Undefined}
                            |-> resultVal(key)])
    ELSE Undefined

filterDeep(obj, m) ==
    IF m = True THEN obj
    ELSE IF Truthy(m) /\ ~isScalar(obj) /\ ~isScalar(m) THEN
        LET maskVal(key) == IF hasKey(m, key) THEN getKey(m, key) ELSE getKey(m, "_")
            resultVal(key) == filterDeep(getKey(obj, key), orFalse(maskVal(key)))
        IN  IF isArray(obj)
                THEN Ar(SelectSeq([i \in 1..Len(obj.a) |-> resultVal(IndexKeys[i])],
                                  LAMBDA v : v # Undefined))
                ELSE Mp([key \in {k \in keysOf(obj) : resultVal(k) # Undefined}
                            |-> resultVal(key)])
    ELSE Undefined

\* the keys of x in the order a for-in loop visits them: the indices
\* ascending, then the names (creation order, here the order of KeyOrder)
KeyOrder == <<"0", "1", "2", "3", "4", "_", "a", "b", "c">>
orderedKeys(x) == SelectSeq(KeyOrder, LAMBDA key : hasKey(x, key))

\* the paths maskedOutHook is called with during filterDeep(obj, m, path,
\* maskedOutHook), in the order of the calls (<<>> is the path '' of the root)
RECURSIVE maskedOutPaths(_, _, _)
RECURSIVE maskedOutUnder(_, _, _, _)
maskedOutUnder(obj, m, path, keys) ==
    IF keys = <<>> THEN <<>>
    ELSE LET key == Head(keys)
             maskVal == IF hasKey(m, key) THEN getKey(m, key) ELSE getKey(m, "_")
         IN  maskedOutPaths(getKey(obj, key), orFalse(maskVal), Append(path, key))
                \o maskedOutUnder(obj, m, path, Tail(keys))

\* as maskedOutPaths, with the hook called for the keys below an excluded
\* branch as well
maskedOutPathsBelow(obj, m, path) ==
    IF m = True THEN <<>>
    ELSE IF Truthy(m) /\ ~isScalar(obj) /\ ~isScalar(m)
        THEN maskedOutUnder(obj, m, path, orderedKeys(obj))
    ELSE <<path>> \o maskedOutUnder(obj, False, path, orderedKeys(obj))

maskedOutPaths(obj, m, path) ==
    IF m = True THEN <<>>
    ELSE IF Truthy(m) /\ ~isScalar(obj) /\ ~isScalar(m)
        THEN maskedOutUnder(obj, m, path, orderedKeys(obj))
    ELSE <<path>>

filterObject(m, obj) == filterDeep(obj, m)

\* the array getMaskedOutFields(obj) returns
getMaskedOutFields(m, obj) == maskedOutPaths(obj, m, <<>>)

checkFields(m, obj) == getMaskedOutFields(m, obj) = <<>>

\* the entries <<path, value>> that addObj(obj, path) of collapseToDotted
\* stores in result; a dotted key is the sequence of its segments
RECURSIVE addObj(_, _)
addObj(obj, path) ==
    IF isScalar(obj) THEN {<<path, obj>>}
    ELSE UNION {addObj(getKey(obj, key), Append(path, key)) : key \in keysOf(obj)}

\* collapseToDotted(obj): the map from the dotted paths of the leaves to them
collapseToDotted(obj) ==
    IF isScalar(obj) THEN EmptyObj
    ELSE LET entries == addObj(obj, <<>>)
         IN  Mp([dotted \in {e[1] : e \in entries} |->
                    (CHOOSE e \in entries : e[1] = dotted)[2]])

\* as filterDottedObject, keeping the keys checkPath refuses
filterDottedObjectRefused(m, dottedObj) ==
    Mp([key \in {k \in keysOf(dottedObj) : ~checkPath(m, k)} |->
            getKey(dottedObj, key)])

filterDottedObject(m, dottedObj) ==
    Mp([key \in {k \in keysOf(dottedObj) : checkPath(m, k)} |->
            getKey(dottedObj, key)])

----------------------------------------------------------------------------
(* Addition and intersection                                               *)

\* addMask(resultMask, newMask) mutates resultMask in place and returns it
RECURSIVE addMask(_, _)
addMask(resultMask, newMask) ==
    IF resultMask = True \/ newMask = True THEN True
    ELSE IF isScalar(newMask) THEN resultMask
    ELSE IF isScalar(resultMask) THEN deepCopy(newMask)
    ELSE
        LET wildNew == getKey(newMask, "_")
            wildRes == getKey(resultMask, "_")
            \* keys of resultMask that newMask covers by its wildcard only
            r1 == [key \in keysOf(resultMask) |->
                    IF hasKey(newMask, "_") /\ key # "_" /\ ~hasKey(newMask, key)
                        THEN addMask(getKey(resultMask, key), wildNew)
                        ELSE getKey(resultMask, key)]
            \* copy over or merge the fields of newMask
            r2 == [key \in keysOf(newMask) \ {"_"} |->
                    IF hasKey(resultMask, key)
                        THEN addMask(getKey(resultMask, key), getKey(newMask, key))
                    ELSE IF hasKey(resultMask, "_")
                        THEN addMask(deepCopy(getKey(newMask, key)), wildRes)
                    ELSE deepCopy(getKey(newMask, key))] @@ r1
            \* fill in the _ key that was skipped
            r3 == IF hasKey(newMask, "_")
                    THEN ("_" :> (IF hasKey(resultMask, "_")
                                    THEN addMask(wildRes, wildNew)
                                    ELSE deepCopy(wildNew))) @@ r2
                    ELSE r2
            \* remove the keys that are set to the same thing as the wildcard
            r4 == IF "_" \in DOMAIN r3
                    THEN [key \in {k \in DOMAIN r3 :
                                    k = "_" \/ ~deepEquals(r3[k], r3["_"])} |-> r3[key]]
                    ELSE r3
        IN  orFalse(Mp(r4))

\* andMask(resultMask, newMask) mutates resultMask in place and returns it
RECURSIVE andMask(_, _)
andMask(resultMask, newMask) ==
    IF resultMask = True THEN deepCopy(newMask)
    ELSE IF newMask = True THEN resultMask
    ELSE IF isScalar(resultMask) \/ isScalar(newMask) THEN False
    ELSE
        LET wildNew == getKey(newMask, "_")
            wildRes == getKey(resultMask, "_")
            concrete == (keysOf(resultMask) \cup keysOf(newMask)) \ {"_"}
            r1 == [key \in concrete |->
                    \* keys that exist in both masks
                    IF hasKey(newMask, key) /\ hasKey(resultMask, key)
                        THEN andMask(getKey(resultMask, key), getKey(newMask, key))
                    \* keys that exist in resultMask but not in newMask
                    ELSE IF hasKey(resultMask, key)
                        THEN (IF hasKey(newMask, "_")
                                THEN andMask(getKey(resultMask, key), wildNew)
                                ELSE False)
                    \* keys that exist in newMask but not in resultMask
                    ELSE (IF hasKey(resultMask, "_")
                            THEN andMask(deepCopy(getKey(newMask, key)), wildRes)
                            ELSE False)]
            \* the wildcard fields
            r2 == IF hasKey(newMask, "_") /\ hasKey(resultMask, "_")
                    THEN ("_" :> andMask(wildRes, wildNew)) @@ r1
                    ELSE r1
            r3 == sanitizeFalsies(Mp(r2))
        IN  IF keysOf(r3) # {} THEN r3 ELSE False

----------------------------------------------------------------------------
(* The static algebra: each takes the trees of its operands               *)

RECURSIVE addMasksFrom(_, _)
addMasksFrom(resultMask, masks) ==
    IF masks = <<>> THEN ObjectMask(orFalse(resultMask))
    ELSE LET next == addMask(resultMask, Head(masks))
         IN  IF next = True THEN ObjectMask(True)
             ELSE addMasksFrom(next, Tail(masks))

\* as addMasks, with resultMask = true to start with
addMasksFromTrue(masks) == addMasksFrom(True, masks)

addMasks(masks) == addMasksFrom(False, masks)

RECURSIVE andMasksFrom(_, _)
andMasksFrom(resultMask, masks) ==
    IF masks = <<>> THEN ObjectMask(orFalse(resultMask))
    ELSE LET next == andMask(resultMask, Head(masks))
         IN  IF next = False THEN ObjectMask(False)
             ELSE andMasksFrom(next, Tail(masks))

andMasks(masks) == andMasksFrom(True, masks)

\* this.mask after subtractMask(sub), or the exception thrown
subtractMask(m, sub) == subtract(m, sub)

\* as subtractMasks, with a false minuend treated like an absent one
subtractMasksFalseAsAbsent(min, sub) ==
    IF min = False THEN invert(sub)
    ELSE subtractMask(ObjectMask(deepCopy(min)), sub)

subtractMasks(min, sub) == subtractMask(ObjectMask(deepCopy(min)), sub)

invertMask(m) == ObjectMask(invert(m))

----------------------------------------------------------------------------
(* Mutators                                                                *)

\* setPath(obj, path, value): the object after the call, or the exception
\* of assigning a property of a primitive (strict mode)
RECURSIVE setPath(_, _, _)
setPath(obj, parts, value) ==
    IF isScalar(obj) THEN (IF obj = Date THEN obj ELSE Thrown("TypeError"))
    ELSE IF Len(parts) = 1 THEN setKey(obj, parts[1], value)
    ELSE LET cur == getKey(obj, Head(parts))
         IN  setKey(obj, Head(parts),
                    setPath(IF isScalar(cur) THEN EmptyObj ELSE cur, Tail(parts), value))

\* the length of the dotted string of a path: every key of a path is one
\* character long, and a dot stands between two keys
dottedLength(path) == Len(path) + (Len(path) - 1)

\* fields.slice(0).sort((a, b) => b.length - a.length): the fields of each
\* length in their order in the list, the longest first
RECURSIVE sortedFrom(_, _)
sortedFrom(fields, length) ==
    IF length = 0 THEN <<>>
    ELSE SelectSeq(fields, LAMBDA field : dottedLength(field) = length)
            \o sortedFrom(fields, length - 1)

sortLongToShort(fields) ==
    LET lengths == {dottedLength(fields[i]) : i \in 1..Len(fields)}
    IN  IF fields = <<>> THEN <<>>
        ELSE sortedFrom(fields, CHOOSE n \in lengths : \A k \in lengths : k <= n)

\* ret after setPath(ret, field, true) for each field of the list in turn
RECURSIVE setFields(_, _)
setFields(ret, fields) ==
    IF fields = <<>> THEN ret
    ELSE setFields(setPath(ret, Head(fields), True), Tail(fields))

\* as createMaskFromFieldList, without the sort
createMaskFromFieldListUnsorted(fields) ==
    ObjectMask(setFields(EmptyObj, fields))

\* createMaskFromFieldList(fields).mask
createMaskFromFieldList(fields) ==
    ObjectMask(setFields(EmptyObj, sortLongToShort(fields)))

\* [mask |-> this.mask after addField(path), thrown |-> whether it threw]
addField(m, path) ==
    IF ~checkFields(m, setPath(EmptyObj, path, True))
        THEN LET r == setPath(m, path, True)
             IN  IF isThrown(r) THEN [mask |-> m, thrown |-> r]
                 ELSE [mask |-> r, thrown |-> Undefined]
        ELSE [mask |-> m, thrown |-> Undefined]

\* what the inner while loop of removeField stores at submask[nextSubpath]
RECURSIVE falseAt(_)
falseAt(subpaths) ==
    IF subpaths = <<>> THEN False
    ELSE Mp((Head(subpaths) :> falseAt(Tail(subpaths))) @@ ("_" :> True))

\* the while (submask) loop of removeField from a truthy submask on:
\* [node |-> submask after the loop, thrown |-> whether an assignment threw]
RECURSIVE removeFrom(_, _)
\* as removeFrom, with submask = submask._ for
\* submask = submask[nextSubpath] = _.cloneDeep(submask._): the wildcard's
\* mask is not copied into the key, the loop goes on in the wildcard itself
removeFromInWildcard(submask, subpaths) ==
    LET nextSubpath == IF subpaths = <<>> THEN "undefined" ELSE Head(subpaths)
        rest == IF subpaths = <<>> THEN <<>> ELSE Tail(subpaths)
        nextSubmask == getKey(submask, nextSubpath)
        into(at, child) ==
            LET r == IF Truthy(child) THEN removeFrom(child, rest)
                     ELSE [node |-> child, thrown |-> FALSE]
            IN  [node |-> setKey(submask, at, r.node), thrown |-> r.thrown]
    IN  IF typeofObject(nextSubmask) THEN into(nextSubpath, nextSubmask)
        ELSE IF Truthy(getKey(submask, "_")) /\ ~Truthy(nextSubmask)
            THEN into("_", getKey(submask, "_"))
        ELSE IF isScalar(submask)
            THEN [node |-> submask, thrown |-> submask # Date]
        ELSE [node |-> setKey(submask, nextSubpath, falseAt(rest)), thrown |-> FALSE]

removeFrom(submask, subpaths) ==
    LET nextSubpath == IF subpaths = <<>> THEN "undefined" ELSE Head(subpaths)
        rest == IF subpaths = <<>> THEN <<>> ELSE Tail(subpaths)
        nextSubmask == getKey(submask, nextSubpath)
        \* the loop goes on in child, which is (now) submask[nextSubpath]
        into(child) ==
            LET r == IF Truthy(child) THEN removeFrom(child, rest)
                     ELSE [node |-> child, thrown |-> FALSE]
            IN  [node |-> setKey(submask, nextSubpath, r.node), thrown |-> r.thrown]
    IN  IF typeofObject(nextSubmask) THEN into(nextSubmask)
        ELSE IF Truthy(getKey(submask, "_")) /\ ~Truthy(nextSubmask)
            THEN into(deepCopy(getKey(submask, "_")))
        ELSE IF isScalar(submask)
            THEN [node |-> submask, thrown |-> submask # Date]
        ELSE [node |-> setKey(submask, nextSubpath, falseAt(rest)), thrown |-> FALSE]

\* as removeField, without the test for a path that is or ends in the wildcard
removeFieldAlsoWildcard(m, path) ==
    IF checkFields(m, setPath(EmptyObj, path, True)) /\ Truthy(m)
        THEN LET r == removeFrom(m, path)
             IN  [mask |-> r.node,
                  thrown |-> IF r.thrown THEN Thrown("TypeError") ELSE Undefined]
    ELSE [mask |-> m, thrown |-> Undefined]

\* [mask |-> this.mask after removeField(path), thrown |-> the exception]
removeField(m, path) ==
    IF path[Len(path)] = "_"
        THEN [mask |-> m, thrown |-> Thrown("Error")]
    ELSE IF checkFields(m, setPath(EmptyObj, path, True)) /\ Truthy(m)
        THEN LET r == removeFrom(m, path)
             IN  [mask |-> r.node,
                  thrown |-> IF r.thrown THEN Thrown("TypeError") ELSE Undefined]
    ELSE [mask |-> m, thrown |-> Undefined]

----------------------------------------------------------------------------
(* Reference semantics: the trees as objects of a heap. A heap is the      *)
(* sequence of its plain objects, each a function from its keys to cells;  *)
(* a cell is a scalar or [r |-> address], a reference to a plain object.   *)
(* The functions below are the ones above, with the assignments of the     *)
(* code made in the heap: they return [h |-> the heap after the call,      *)
(* v |-> the cell returned, e |-> the exception thrown or Undefined].      *)

Ref(addr) == [r |-> addr]
isRef(cell) == "r" \in DOMAIN cell

\* key in x, for a plain object x
hasKeyRef(h, cell, key) == isRef(cell) /\ key \in DOMAIN h[cell.r]

\* x[key]
readKey(h, cell, key) ==
    IF hasKeyRef(h, cell, key) THEN h[cell.r][key] ELSE Undefined

\* x[key] = value, for a plain object x
writeKey(h, cell, key, value) ==
    [h EXCEPT ![cell.r] = (key :> value) @@ @]

\* Array.isArray(x): an array is an object with a length, which no loop over
\* the keys visits
isArrayRef(h, cell) == hasKeyRef(h, cell, "length")

\* the keys of an object, in the order for (key in x) visits them;
\* "undefined" is the key removeField assigns past the end of a path
keysRef(h, cell) ==
    SelectSeq(KeyOrder \o <<"undefined">>, LAMBDA key : hasKeyRef(h, cell, key))

\* a new plain object with the cells f
alloc(h, f) == [h |-> Append(h, f), v |-> Ref(Len(h) + 1), e |-> Undefined]

\* the tree a cell stands for; of an array, its elements
RECURSIVE treeOf(_, _)
treeOf(h, cell) ==
    IF isArrayRef(h, cell)
        THEN Ar([i \in 1..h[cell.r]["length"].n |->
                    treeOf(h, readKey(h, cell, IndexKeys[i]))])
    ELSE IF isRef(cell)
        THEN Mp([key \in DOMAIN h[cell.r] |-> treeOf(h, h[cell.r][key])])
    ELSE cell

\* the addresses of the plain objects a cell reaches
RECURSIVE reachable(_, _)
reachable(h, cell) ==
    IF isRef(cell)
        THEN {cell.r} \cup UNION {reachable(h, h[cell.r][key]) : key \in DOMAIN h[cell.r]}
        ELSE {}

\* a tree of new plain objects
RECURSIVE allocTree(_, _)
RECURSIVE allocKeys(_, _, _, _)
allocKeys(h, tree, keys, f) ==
    IF keys = <<>> THEN [h |-> h, f |-> f]
    ELSE LET r == allocTree(h, getKey(tree, Head(keys)))
         IN  allocKeys(r.h, tree, Tail(keys), (Head(keys) :> r.v) @@ f)

allocTree(h, tree) ==
    IF isScalar(tree) THEN [h |-> h, v |-> tree, e |-> Undefined]
    ELSE LET r == allocKeys(h, tree, orderedKeys(tree), <<>>)
         IN  IF isArray(tree) THEN alloc(r.h, ("length" :> Num(Len(tree.a))) @@ r.f)
             ELSE alloc(r.h, r.f)

\* as deepCopy, without the copy: the object itself is returned
deepCopyShared(h, obj) == [h |-> h, v |-> obj, e |-> Undefined]

\* objtools.deepCopy(obj): every plain object reached is copied anew, once
\* for each path that leads to it
deepCopyRef(h, obj) == allocTree(h, treeOf(h, obj))

\* _.cloneDeep(value): every object reached is copied once, so that an
\* object reached by two paths is one object in the copy as well; of an
\* array the elements are copied
cloneDeepRef(h, value) ==
    LET old == reachable(h, value)
        rank(addr) == Cardinality({x \in old : x <= addr})
        moved(cell) == IF isRef(cell) THEN Ref(Len(h) + rank(cell.r)) ELSE cell
        copied(addr) ==
            IF "length" \in DOMAIN h[addr]
                THEN {key \in DOMAIN h[addr] :
                        key = "length" \/ \E i \in 1..Len(IndexKeys) : IndexKeys[i] = key}
                ELSE DOMAIN h[addr]
        copyOf(i) == LET addr == CHOOSE x \in old : rank(x) = i
                     IN  [key \in copied(addr) |-> moved(h[addr][key])]
    IN  [h |-> h \o [i \in 1..Cardinality(old) |-> copyOf(i)],
         v |-> moved(value), e |-> Undefined]

\* underscorizeArrays(m), which assigns in m
RECURSIVE underscorizeArraysRef(_, _)
RECURSIVE underscorizeKeys(_, _, _)
\* for (subpath in mask): an array becomes { _: underscorizeArrays(submask[0]) }
underscorizeKeys(h, m, keys) ==
    IF keys = <<>> THEN h
    ELSE LET subpath == Head(keys)
             submask == readKey(h, m, subpath)
             first == underscorizeArraysRef(h, readKey(h, submask, "0"))
             made == alloc(first.h, "_" :> first.v)
         IN  IF isArrayRef(h, submask)
                THEN underscorizeKeys(writeKey(made.h, m, subpath, made.v), m, Tail(keys))
             ELSE IF isRef(submask)
                THEN underscorizeKeys(underscorizeArraysRef(h, submask).h, m, Tail(keys))
             ELSE underscorizeKeys(h, m, Tail(keys))

underscorizeArraysRef(h, m) ==
    [h |-> underscorizeKeys(h, m, keysRef(h, m)), v |-> m, e |-> Undefined]

\* new ObjectMask(tree).mask
ObjectMaskRef(h, m) ==
    LET copy == cloneDeepRef(h, m)
    IN  underscorizeArraysRef(copy.h, copy.v)

\* as clone, without the copies: the new ObjectMask holds the tree itself
cloneShared(h, m) == [h |-> h, v |-> m, e |-> Undefined]

\* clone().mask
cloneRef(h, m) ==
    LET copy == deepCopyRef(h, m)
    IN  ObjectMaskRef(copy.h, copy.v)

RECURSIVE setPathRef(_, _, _, _)
setPathRef(h, cur, parts, value) ==
    IF ~isRef(cur)
        THEN [h |-> h, v |-> cur,
              e |-> IF cur = Date THEN Undefined ELSE Thrown("TypeError")]
    ELSE IF Len(parts) = 1
        THEN [h |-> writeKey(h, cur, parts[1], value), v |-> cur, e |-> Undefined]
    ELSE LET child == readKey(h, cur, Head(parts))
             made == alloc(h, <<>>)
         IN  IF isScalar(child)
                THEN setPathRef(writeKey(made.h, cur, Head(parts), made.v),
                                made.v, Tail(parts), value)
                ELSE setPathRef(h, child, Tail(parts), value)

\* addField(path) of the ObjectMask whose tree is at cell m
addFieldRef(h, m, path) ==
    IF ~checkFields(treeOf(h, m), setPath(EmptyObj, path, True))
        THEN LET r == setPathRef(h, m, path, True)
             IN  [h |-> r.h, v |-> m, e |-> r.e]
        ELSE [h |-> h, v |-> m, e |-> Undefined]

\* the while (submask) loop of removeField
RECURSIVE removeFromRef(_, _, _)
removeFromRef(h, submask, subpaths) ==
    LET nextSubpath == IF subpaths = <<>> THEN "undefined" ELSE Head(subpaths)
        rest == IF subpaths = <<>> THEN <<>> ELSE Tail(subpaths)
        nextSubmask == readKey(h, submask, nextSubpath)
        copy == cloneDeepRef(h, readKey(h, submask, "_"))
        made == allocTree(h, falseAt(rest))
    IN  IF ~Truthy(submask) THEN [h |-> h, e |-> Undefined]
        ELSE IF typeofObject(nextSubmask) THEN removeFromRef(h, nextSubmask, rest)
        ELSE IF Truthy(readKey(h, submask, "_")) /\ ~Truthy(nextSubmask)
            THEN removeFromRef(writeKey(copy.h, submask, nextSubpath, copy.v),
                               copy.v, rest)
        ELSE IF ~isRef(submask)
            THEN [h |-> h,
                  e |-> IF submask = Date THEN Undefined ELSE Thrown("TypeError")]
        ELSE [h |-> writeKey(made.h, submask, nextSubpath, made.v), e |-> Undefined]

\* removeField(path) of the ObjectMask whose tree is at cell m
removeFieldRef(h, m, path) ==
    IF path[Len(path)] = "_"
        THEN [h |-> h, v |-> m, e |-> Thrown("Error")]
    ELSE IF checkFields(treeOf(h, m), setPath(EmptyObj, path, True))
        THEN LET r == removeFromRef(h, m, path)
             IN  [h |-> r.h, v |-> m, e |-> r.e]
    ELSE [h |-> h, v |-> m, e |-> Undefined]

\* sanitizeFalsies(obj), for a plain object obj
sanitizeFalsiesRef(h, obj) ==
    IF ~Truthy(readKey(h, obj, "_"))
        THEN [h EXCEPT ![obj.r] =
                [key \in {k \in DOMAIN @ \ {"_"} : @[k] # False} |-> @[key]]]
        ELSE h

RECURSIVE invertRef(_, _)
RECURSIVE invertKeys(_, _, _, _)
\* for (key in m) result[key] = invert(m[key])
invertKeys(h, m, keys, result) ==
    IF keys = <<>> THEN [h |-> h, f |-> result]
    ELSE LET r == invertRef(h, readKey(h, m, Head(keys)))
         IN  invertKeys(r.h, m, Tail(keys), (Head(keys) :> r.v) @@ result)

invertRef(h, m) ==
    IF isScalar(m)
        THEN [h |-> h, v |-> IF Truthy(m) THEN False ELSE True, e |-> Undefined]
    ELSE LET r == invertKeys(h, m, keysRef(h, m), <<>>)
             result == IF "_" \notin DOMAIN r.f THEN ("_" :> True) @@ r.f
                       ELSE IF ~Truthy(r.f["_"])
                            THEN [key \in DOMAIN r.f \ {"_"} |-> r.f[key]]
                       ELSE r.f
         IN  alloc(r.h, result)

RECURSIVE subtractRef(_, _, _)
RECURSIVE subtractWildcard(_, _, _, _)
RECURSIVE subtractIntoWildcard(_, _, _, _)
RECURSIVE subtractKeys(_, _, _, _)
\* for (key in a) if (!(key in b) || key === '_') a[key] = subtract(a[key], b._)
subtractWildcard(h, a, b, keys) ==
    IF keys = <<>> THEN [h |-> h, e |-> Undefined]
    ELSE LET key == Head(keys)
             r == subtractRef(h, readKey(h, a, key), readKey(h, b, "_"))
         IN  IF hasKeyRef(h, b, key) /\ key # "_"
                THEN subtractWildcard(h, a, b, Tail(keys))
             ELSE IF r.e # Undefined THEN [h |-> r.h, e |-> r.e]
             ELSE subtractWildcard(writeKey(r.h, a, key, r.v), a, b, Tail(keys))

\* for (key in b) if (key !== '_') a._[key] = subtract(a[key], b[key])
subtractIntoWildcard(h, a, b, keys) ==
    IF keys = <<>> THEN [h |-> h, e |-> Undefined]
    ELSE LET key == Head(keys)
             r == subtractRef(h, readKey(h, a, key), readKey(h, b, key))
             wild == readKey(r.h, a, "_")
         IN  IF key = "_" THEN subtractIntoWildcard(h, a, b, Tail(keys))
             ELSE IF r.e # Undefined THEN [h |-> r.h, e |-> r.e]
             ELSE IF isRef(wild)
                THEN subtractIntoWildcard(writeKey(r.h, wild, key, r.v), a, b, Tail(keys))
             ELSE IF wild = Date THEN subtractIntoWildcard(r.h, a, b, Tail(keys))
             ELSE [h |-> r.h, e |-> Thrown("TypeError")]

\* for (key in b) a[key] = subtract(a[key], b[key])
subtractKeys(h, a, b, keys) ==
    IF keys = <<>> THEN [h |-> h, e |-> Undefined]
    ELSE LET key == Head(keys)
             r == subtractRef(h, readKey(h, a, key), readKey(h, b, key))
         IN  IF r.e # Undefined THEN [h |-> r.h, e |-> r.e]
             ELSE subtractKeys(writeKey(r.h, a, key, r.v), a, b, Tail(keys))

subtractRef(h, a, b) ==
    IF a = True THEN invertRef(h, b)
    ELSE IF a = False THEN [h |-> h, v |-> False, e |-> Undefined]
    ELSE IF ~Truthy(a) THEN invertRef(h, b)
    ELSE IF ~Truthy(b) THEN [h |-> h, v |-> a, e |-> Undefined]
    ELSE IF b = True \/ isEqual(treeOf(h, a), treeOf(h, b))
        THEN [h |-> h, v |-> False, e |-> Undefined]
    ELSE IF isScalar(a) \/ isScalar(b) THEN [h |-> h, v |-> a, e |-> Thrown("Error")]
    ELSE
        LET first == IF hasKeyRef(h, b, "_")
                        THEN subtractWildcard(h, a, b, keysRef(h, a))
                        ELSE [h |-> h, e |-> Undefined]
            second == IF hasKeyRef(first.h, a, "_") /\ hasKeyRef(first.h, b, "_")
                        THEN subtractIntoWildcard(first.h, a, b, keysRef(first.h, b))
                        ELSE subtractKeys(first.h, a, b, keysRef(first.h, b))
        IN  IF first.e # Undefined THEN [h |-> first.h, v |-> a, e |-> first.e]
            ELSE IF second.e # Undefined THEN [h |-> second.h, v |-> a, e |-> second.e]
            ELSE [h |-> sanitizeFalsiesRef(second.h, a), v |-> a, e |-> Undefined]

\* subtractMask(m) of the ObjectMask whose tree is at cell this: v is its tree after the call
subtractMaskRef(h, this, m) ==
    LET r == subtractRef(h, this, m)
    IN  IF r.e # Undefined THEN [h |-> r.h, v |-> this, e |-> r.e] ELSE r

RECURSIVE addMaskRef(_, _, _)
RECURSIVE addCovered(_, _, _, _)
RECURSIVE addMerged(_, _, _, _)
\* the keys of resultMask that newMask covers by its wildcard only
addCovered(h, resultMask, newMask, keys) ==
    IF keys = <<>> THEN h
    ELSE LET key == Head(keys)
             r == addMaskRef(h, readKey(h, resultMask, key), readKey(h, newMask, "_"))
         IN  IF key # "_" /\ ~hasKeyRef(h, newMask, key)
                THEN addCovered(writeKey(r.h, resultMask, key, r.v),
                                resultMask, newMask, Tail(keys))
                ELSE addCovered(h, resultMask, newMask, Tail(keys))

\* copy over or merge the fields of newMask
addMerged(h, resultMask, newMask, keys) ==
    IF keys = <<>> THEN h
    ELSE LET key == Head(keys)
             copy == deepCopyRef(h, readKey(h, newMask, key))
             r == IF hasKeyRef(h, resultMask, key)
                    THEN addMaskRef(h, readKey(h, resultMask, key), readKey(h, newMask, key))
                  ELSE IF hasKeyRef(h, resultMask, "_")
                    THEN addMaskRef(copy.h, copy.v, readKey(copy.h, resultMask, "_"))
                  ELSE copy
         IN  IF key = "_" THEN addMerged(h, resultMask, newMask, Tail(keys))
             ELSE addMerged(writeKey(r.h, resultMask, key, r.v),
                            resultMask, newMask, Tail(keys))

\* fill in the _ key that was skipped
addWildcard(h, resultMask, newMask) ==
    LET r == IF hasKeyRef(h, resultMask, "_")
                THEN addMaskRef(h, readKey(h, resultMask, "_"), readKey(h, newMask, "_"))
                ELSE deepCopyRef(h, readKey(h, newMask, "_"))
    IN  IF hasKeyRef(h, newMask, "_") THEN writeKey(r.h, resultMask, "_", r.v) ELSE h

\* remove the keys that are set to the same thing as the wildcard
addPruned(h, resultMask) ==
    IF hasKeyRef(h, resultMask, "_")
        THEN [h EXCEPT ![resultMask.r] =
                [key \in {k \in DOMAIN @ :
                    k = "_" \/ ~deepEquals(treeOf(h, @[k]), treeOf(h, @["_"]))}
                    |-> @[key]]]
        ELSE h

addMaskRef(h, resultMask, newMask) ==
    IF resultMask = True \/ newMask = True THEN [h |-> h, v |-> True, e |-> Undefined]
    ELSE IF isScalar(newMask) THEN [h |-> h, v |-> resultMask, e |-> Undefined]
    ELSE IF isScalar(resultMask) THEN deepCopyRef(h, newMask)
    ELSE
        LET h1 == IF hasKeyRef(h, newMask, "_")
                    THEN addCovered(h, resultMask, newMask, keysRef(h, resultMask))
                    ELSE h
            h2 == addMerged(h1, resultMask, newMask, keysRef(h, newMask))
        IN  [h |-> addPruned(addWildcard(h2, resultMask, newMask), resultMask),
             v |-> resultMask, e |-> Undefined]

RECURSIVE andMaskRef(_, _, _)
RECURSIVE andInBoth(_, _, _, _)
RECURSIVE andInResult(_, _, _, _)
RECURSIVE andInNew(_, _, _, _)
\* the keys that exist in both masks
andInBoth(h, resultMask, newMask, keys) ==
    IF keys = <<>> THEN h
    ELSE LET key == Head(keys)
             r == andMaskRef(h, readKey(h, resultMask, key), readKey(h, newMask, key))
         IN  IF key # "_" /\ hasKeyRef(h, resultMask, key)
                THEN andInBoth(writeKey(r.h, resultMask, key, r.v),
                               resultMask, newMask, Tail(keys))
                ELSE andInBoth(h, resultMask, newMask, Tail(keys))

\* the keys that exist in resultMask but not in newMask
andInResult(h, resultMask, newMask, keys) ==
    IF keys = <<>> THEN h
    ELSE LET key == Head(keys)
             r == andMaskRef(h, readKey(h, resultMask, key), readKey(h, newMask, "_"))
         IN  IF key = "_" \/ hasKeyRef(h, newMask, key)
                THEN andInResult(h, resultMask, newMask, Tail(keys))
             ELSE IF hasKeyRef(h, newMask, "_")
                THEN andInResult(writeKey(r.h, resultMask, key, r.v),
                                 resultMask, newMask, Tail(keys))
             ELSE andInResult(writeKey(h, resultMask, key, False),
                              resultMask, newMask, Tail(keys))

\* the keys that exist in newMask but not in resultMask
andInNew(h, resultMask, newMask, keys) ==
    IF keys = <<>> THEN h
    ELSE LET key == Head(keys)
             copy == deepCopyRef(h, readKey(h, newMask, key))
             r == andMaskRef(copy.h, copy.v, readKey(copy.h, resultMask, "_"))
         IN  IF key = "_" \/ hasKeyRef(h, resultMask, key)
                THEN andInNew(h, resultMask, newMask, Tail(keys))
             ELSE IF hasKeyRef(h, resultMask, "_")
                THEN andInNew(writeKey(r.h, resultMask, key, r.v),
                              resultMask, newMask, Tail(keys))
             ELSE andInNew(writeKey(h, resultMask, key, False),
                           resultMask, newMask, Tail(keys))

\* the wildcard fields
andWildcard(h, resultMask, newMask) ==
    LET r == andMaskRef(h, readKey(h, resultMask, "_"), readKey(h, newMask, "_"))
    IN  IF hasKeyRef(h, newMask, "_") /\ hasKeyRef(h, resultMask, "_")
            THEN writeKey(r.h, resultMask, "_", r.v)
            ELSE [h EXCEPT ![resultMask.r] = [key \in DOMAIN @ \ {"_"} |-> @[key]]]

\* the tree when it has a key, false when it has none
andResult(h, resultMask) ==
    [h |-> h, v |-> IF keysRef(h, resultMask) # <<>> THEN resultMask ELSE False,
     e |-> Undefined]

andMaskRef(h, resultMask, newMask) ==
    IF resultMask = True THEN deepCopyRef(h, newMask)
    ELSE IF newMask = True THEN [h |-> h, v |-> resultMask, e |-> Undefined]
    ELSE IF isScalar(resultMask) \/ isScalar(newMask)
        THEN [h |-> h, v |-> False, e |-> Undefined]
    ELSE
        LET h1 == andInBoth(h, resultMask, newMask, keysRef(h, newMask))
            h2 == andInResult(h1, resultMask, newMask, keysRef(h, resultMask))
            h3 == andInNew(h2, resultMask, newMask, keysRef(h, newMask))
        IN  andResult(sanitizeFalsiesRef(andWildcard(h3, resultMask, newMask), resultMask),
                      resultMask)

\* the static algebra, its operands the trees of ObjectMasks
RECURSIVE addMasksFromRef(_, _, _)
addMasksFromRef(h, resultMask, masks) ==
    IF masks = <<>> THEN ObjectMaskRef(h, orFalse(resultMask))
    ELSE LET next == addMaskRef(h, resultMask, Head(masks))
         IN  IF next.v = True THEN ObjectMaskRef(next.h, True)
             ELSE addMasksFromRef(next.h, next.v, Tail(masks))

addMasksRef(h, masks) == addMasksFromRef(h, False, masks)

RECURSIVE andMasksFromRef(_, _, _)
andMasksFromRef(h, resultMask, masks) ==
    IF masks = <<>> THEN ObjectMaskRef(h, orFalse(resultMask))
    ELSE LET next == andMaskRef(h, resultMask, Head(masks))
         IN  IF next.v = False THEN ObjectMaskRef(next.h, False)
             ELSE andMasksFromRef(next.h, next.v, Tail(masks))

andMasksRef(h, masks) == andMasksFromRef(h, True, masks)

subtractMasksRef(h, min, sub) ==
    LET copy == cloneRef(h, min)
        made == ObjectMaskRef(copy.h, copy.v)
    IN  subtractMaskRef(made.h, made.v, sub)

invertMaskRef(h, m) ==
    LET r == invertRef(h, m)
    IN  ObjectMaskRef(r.h, r.v)

----------------------------------------------------------------------------
(* Hashing                                                                 *)

\* typeof v
typeOf(v) ==
    IF ~isScalar(v) THEN "object"
    ELSE IF v.s \in {"true", "false"} THEN "boolean"
    ELSE IF v.s \in {"number", "undefined"} THEN v.s
    ELSE "object"

\* String(v) of a scalar; a Date is written to the second, in the time zone
\* of the process (here UTC)
String(v) ==
    IF v.s = "number" THEN ToString(v.n)
    ELSE IF v.s = "date" /\ "t" \in DOMAIN v
        THEN "Thu Jan 01 1970 00:00:0" \o ToString(v.t \div 1000)
                \o " GMT+0000 (Coordinated Universal Time)"
    ELSE v.s

\* Object.keys(v), for a plain object whose keys were inserted in the order
\* they have in order
objectKeys(v, order) == SelectSeq(order, LAMBDA key : hasKey(v, key))

\* keys.sort(): the order of the UTF-16 code units
CodeUnitOrder == <<"0", "1", "2", "3", "4", "_", "a", "b", "c">>
\* as sort, leaving the keys as they are
sortNot(keys) == keys

sort(keys) ==
    SelectSeq(CodeUnitOrder, LAMBDA key : \E i \in 1..Len(keys) : keys[i] = key)

RECURSIVE hashKey(_, _)
RECURSIVE hashElements(_, _)
RECURSIVE hashEntries(_, _, _)
\* for (let el of v) r += sk.length + ' ' + sk
hashElements(els, order) ==
    IF els = <<>> THEN ""
    ELSE LET sk == hashKey(Head(els), order)
         IN  ToString(Len(sk)) \o " " \o sk \o hashElements(Tail(els), order)

\* for (let key of keys) r += key.length + ' ' + key + sk.length + ' ' + sk
hashEntries(v, keys, order) ==
    IF keys = <<>> THEN ""
    ELSE LET key == Head(keys)
             sk == hashKey(getKey(v, key), order)
         IN  ToString(Len(key)) \o " " \o key \o ToString(Len(sk)) \o " " \o sk
                \o hashEntries(v, Tail(keys), order)

hashKey(v, order) ==
    IF isArray(v) THEN "ar" \o hashElements(v.a, order)
    ELSE IF isMap(v) THEN "obj" \o hashEntries(v, sort(objectKeys(v, order)), order)
    ELSE typeOf(v) \o String(v)

MAX_KEY_SIZE == 40

\* objectHash(obj): the key itself, or its MD5 digest
objectHash(obj, order) ==
    LET hk == hashKey(obj, order)
    IN  IF Len(hk) <= MAX_KEY_SIZE THEN [hk |-> hk] ELSE [md5 |-> hk]

----------------------------------------------------------------------------
(* Comparison and diffs                                                    *)

\* a === b, for two values built apart from each other: two objects, Dates
\* among them, are never the same object
strictEquals(a, b) == isScalar(a) /\ isScalar(b) /\ a = b /\ a.s # "date"

scalarEquals(a1, a2) ==
    IF isScalar(a1) /\ isScalar(a2) /\ a1.s = "date" /\ a2.s = "date" THEN a1 = a2
    ELSE strictEquals(a1, a2)

\* a set of dotted paths, as a result
PathSet(paths) == [set |-> paths]

\* the keys of fieldSet after addDottedDiffFieldsToSet(fieldSet, fieldPath,
\* value1, value2), fieldSet without keys before
RECURSIVE addDottedDiffFieldsToSet(_, _, _)
addDottedDiffFieldsToSet(fieldPath, value1, value2) ==
    IF ~isScalar(value1) /\ ~isScalar(value2) THEN
        UNION {IF hasKey(value2, key)
                THEN addDottedDiffFieldsToSet(Append(fieldPath, key),
                                              getKey(value1, key), getKey(value2, key))
                ELSE {Append(fieldPath, key)} : key \in keysOf(value1)}
        \cup {Append(fieldPath, key) : key \in keysOf(value2) \ keysOf(value1)}
    ELSE IF ~scalarEquals(value1, value2) THEN {fieldPath}
    ELSE {}

dottedDiff(val1, val2) ==
    IF isScalar(val1) /\ isScalar(val2)
        THEN (IF strictEquals(val1, val2) THEN {} ELSE {<<>>})
        ELSE addDottedDiffFieldsToSet(<<>>, val1, val2)

\* Object.keys(obj), the keys of a plain object inserted in the order they
\* have in order
ownKeys(obj, order) ==
    IF isArray(obj) THEN SubSeq(IndexKeys, 1, Len(obj.a))
    ELSE objectKeys(obj, order)

\* getKeys(objects) for two objects: the keys of the second, then the first
getKeys(obj1, obj2, order1, order2) ==
    (IF isScalar(obj2) THEN <<>> ELSE ownKeys(obj2, order2))
        \o (IF isScalar(obj1) THEN <<>> ELSE ownKeys(obj1, order1))

getValueAtKeyOrNull(obj, key) ==
    IF Truthy(obj) /\ getKey(obj, key) # Undefined THEN getKey(obj, key) ELSE Null

\* getDuplicateKeys(diffValues).length !== 0, for two values
hasDuplicateKeys(val1, val2) ==
    ~isScalar(val1) /\ ~isScalar(val2) /\ keysOf(val1) \cap keysOf(val2) # {}

\* the keys the loop of diffObjects visits: index runs from the last key
\* down to the second
visitedKeys(diffKeys) == IF diffKeys = <<>> THEN <<>> ELSE Tail(diffKeys)

RECURSIVE diffObjects(_, _, _, _)
\* diffObjects(obj1, obj2) for two objects, none of them a scalar
diffObjects(obj1, obj2, order1, order2) ==
    LET isHeterogeneousAtKey(key) ==
            ~(/\ Truthy(obj2) /\ Truthy(obj1)
              /\ strictEquals(getKey(obj2, key), getKey(obj1, key)))
        diffKeys == SelectSeq(getKeys(obj1, obj2, order1, order2), isHeterogeneousAtKey)
        visited == visitedKeys(diffKeys)
        diffValue(key) ==
            LET val1 == getValueAtKeyOrNull(obj1, key)
                val2 == getValueAtKeyOrNull(obj2, key)
            IN  IF ~hasDuplicateKeys(val1, val2) THEN Ar(<<val1, val2>>)
                ELSE diffObjects(val1, val2, order1, order2)
    IN  Mp([key \in {visited[i] : i \in 1..Len(visited)} |-> diffValue(key)])

----------------------------------------------------------------------------
(* The bounded universe of masks, objects and paths                        *)

\* the most entries (key-value pairs, at all depths) of an operand of the algebra
MaxEntries == 2
\* the most entries of a mask that is filtered with, inverted or resolved
MaxMaskEntries == 2
\* the most entries of a filtered object
MaxObjEntries == 2
\* the most segments of a dotted path
MaxPathLen == 2

MaskKeys == <<"a", "b", "_">>
\* the keys of a mask an object is filtered with: "0" is the first array index
FilterMaskKeys == <<"a", "0", "_">>
ObjKeys == <<"a", "b">>
\* "c" is a key no mask lists
PathKeys == {"a", "b", "c"}

\* the functions from a subset of the keys to trees, of n entries in all
RECURSIVE MaskTreesOfSize(_, _, _)
RECURSIVE MaskMapsOfSize(_, _, _, _)
MaskMapsOfSize(leaves, allKeys, keys, n) ==
    IF keys = <<>> THEN (IF n = 0 THEN {<<>>} ELSE {})
    ELSE MaskMapsOfSize(leaves, allKeys, Tail(keys), n) \cup
         UNION {{(Head(keys) :> t) @@ g :
                    t \in MaskTreesOfSize(leaves, allKeys, i),
                    g \in MaskMapsOfSize(leaves, allKeys, Tail(keys), n - 1 - i)} :
                i \in 0..(n - 1)}

MaskTreesOfSize(leaves, allKeys, n) ==
    (IF n = 0 THEN leaves ELSE {})
        \cup {Mp(f) : f \in MaskMapsOfSize(leaves, allKeys, allKeys, n)}

\* the mask trees whose leaves are all booleans
BoolMasks == UNION {MaskTreesOfSize({True, False}, MaskKeys, i) : i \in 0..MaxEntries}
\* the mask trees with any scalar leaves
AnyMasks ==
    UNION {MaskTreesOfSize({True, False, Date, Null}, MaskKeys, i) : i \in 0..MaxMaskEntries}
\* the mask trees an object is filtered with
FilterMasks ==
    UNION {MaskTreesOfSize({True, False, Date, Null}, FilterMaskKeys, i) :
            i \in 0..MaxMaskEntries}

RECURSIVE ObjTreesOfSize(_)
RECURSIVE ObjMapsOfSize(_, _)
RECURSIVE ObjSeqsOfSize(_)
ObjMapsOfSize(keys, n) ==
    IF keys = <<>> THEN (IF n = 0 THEN {<<>>} ELSE {})
    ELSE ObjMapsOfSize(Tail(keys), n) \cup
         UNION {{(Head(keys) :> t) @@ g :
                    t \in ObjTreesOfSize(i),
                    g \in ObjMapsOfSize(Tail(keys), n - 1 - i)} :
                i \in 0..(n - 1)}

ObjSeqsOfSize(n) ==
    IF n = 0 THEN {<<>>}
    ELSE UNION {{<<t>> \o q : t \in ObjTreesOfSize(i), q \in ObjSeqsOfSize(n - 1 - i)} :
                i \in 0..(n - 1)}

ObjTreesOfSize(n) ==
    (IF n = 0 THEN {Str, Undefined} ELSE {})
        \cup {Mp(f) : f \in ObjMapsOfSize(ObjKeys, n)}
        \cup {Ar(q) : q \in ObjSeqsOfSize(n)}

Objects == UNION {ObjTreesOfSize(i) : i \in 0..MaxObjEntries}

Paths == UNION {[1..i -> PathKeys] : i \in 1..MaxPathLen}
\* the dotted paths that may have the wildcard as a segment
WildcardPaths == UNION {[1..i -> PathKeys \cup {"_"}] : i \in 1..MaxPathLen}

\* a list of dotted paths, as an argument or a result
PathList(paths) == [l |-> paths]

\* the most fields of a field list
MaxFields == 2
FieldLists == UNION {[1..n -> Paths] : n \in 0..MaxFields}

\* the most entries of a tree a mask is constructed from
MaxSourceEntries == 3
SourceKeys == <<"a", "_">>

\* the trees a mask is constructed from: boolean leaves, maps and arrays
RECURSIVE SourceTreesOfSize(_)
RECURSIVE SourceMapsOfSize(_, _)
RECURSIVE SourceSeqsOfSize(_)
SourceMapsOfSize(keys, n) ==
    IF keys = <<>> THEN (IF n = 0 THEN {<<>>} ELSE {})
    ELSE SourceMapsOfSize(Tail(keys), n) \cup
         UNION {{(Head(keys) :> t) @@ g :
                    t \in SourceTreesOfSize(i),
                    g \in SourceMapsOfSize(Tail(keys), n - 1 - i)} :
                i \in 0..(n - 1)}

SourceSeqsOfSize(n) ==
    IF n = 0 THEN {<<>>}
    ELSE UNION {{<<t>> \o q : t \in SourceTreesOfSize(i), q \in SourceSeqsOfSize(n - 1 - i)} :
                i \in 0..(n - 1)}

SourceTreesOfSize(n) ==
    (IF n = 0 THEN {True, False} ELSE {})
        \cup {Mp(f) : f \in SourceMapsOfSize(SourceKeys, n)}
        \cup {Ar(q) : q \in SourceSeqsOfSize(n)}

SourceTrees == UNION {SourceTreesOfSize(i) : i \in 0..MaxSourceEntries}

\* a dotted path as an argument: the segments path.split('.') yields
PathArg(path) == [p |-> path]

\* the most entries of a value that is hashed or compared
MaxDataEntries == 2
DataKeys == <<"a", "b">>
\* the orders the keys of a plain object can have been inserted in
KeyOrders == {<<"a", "b">>, <<"b", "a">>}

RECURSIVE DataTreesOfSize(_, _)
RECURSIVE DataMapsOfSize(_, _, _)
RECURSIVE DataSeqsOfSize(_, _)
DataMapsOfSize(leaves, keys, n) ==
    IF keys = <<>> THEN (IF n = 0 THEN {<<>>} ELSE {})
    ELSE DataMapsOfSize(leaves, Tail(keys), n) \cup
         UNION {{(Head(keys) :> t) @@ g :
                    t \in DataTreesOfSize(leaves, i),
                    g \in DataMapsOfSize(leaves, Tail(keys), n - 1 - i)} :
                i \in 0..(n - 1)}

DataSeqsOfSize(leaves, n) ==
    IF n = 0 THEN {<<>>}
    ELSE UNION {{<<t>> \o q : t \in DataTreesOfSize(leaves, i),
                              q \in DataSeqsOfSize(leaves, n - 1 - i)} :
                i \in 0..(n - 1)}

DataTreesOfSize(leaves, n) ==
    (IF n = 0 THEN leaves ELSE {})
        \cup {Mp(f) : f \in DataMapsOfSize(leaves, DataKeys, n)}
        \cup {Ar(q) : q \in DataSeqsOfSize(leaves, n)}

\* the values that are hashed: numbers, and Dates a millisecond and a
\* second apart
HashValues ==
    UNION {DataTreesOfSize({Num(1), Num(2), DateAt(0), DateAt(1), DateAt(1000)}, i) :
            i \in 0..MaxDataEntries}

\* the values that are compared
DiffValues ==
    UNION {DataTreesOfSize({Num(1), Num(2), True, Null, DateAt(0)}, i) :
            i \in 0..MaxDataEntries}

\* the trees of the operands of the static algebra, Dates among their leaves
OperandTrees ==
    UNION {MaskTreesOfSize({True, False, Date}, <<"a", "_">>, i) : i \in 0..MaxMaskEntries}

\* every array of the tree has one element
RECURSIVE singleElementArrays(_)
singleElementArrays(tree) ==
    /\ isArray(tree) => Len(tree.a) = 1
    /\ \A key \in keysOf(tree) : singleElementArrays(getKey(tree, key))

\* the trees of booleans, maps and single-element arrays an ObjectMask that
\* is mutated is constructed from
MutatedTrees == {tree \in SourceTrees : singleElementArrays(tree)}

\* the trees an ObjectMask that is cloned is constructed from
CloneTrees ==
    UNION {MaskTreesOfSize({True, False}, <<"a", "_">>, i) : i \in 0..MaxMaskEntries}
\* the paths added to and removed from a clone or its original
ClonePaths == {<<"a">>, <<"b">>, <<"a", "a">>, <<"a", "b">>}
\* the trees subtracted from a clone or its original
SubtrahendTrees ==
    {True, Mp("a" :> True), Mp("_" :> True), Mp("a" :> Mp("b" :> True))}
\* the ObjectMasks of a clone and its original
Masks == {"original", "cloned"}

----------------------------------------------------------------------------
(* Validation                                                              *)

RECURSIVE valWhitelist(_)
\* as valWhitelist, without the loop over the keys
valWhitelistShallow(whitelist) ==
    ~(whitelist # True /\ whitelist # False /\ isScalar(whitelist))

valWhitelist(whitelist) ==
    IF whitelist # True /\ whitelist # False /\ isScalar(whitelist) THEN FALSE
    ELSE \A key \in keysOf(whitelist) : valWhitelist(getKey(whitelist, key))

validate(m) == valWhitelist(m)

----------------------------------------------------------------------------
(* The state machine: a mask is constructed, then one of its operations is *)
(* called; the result of a filter or an inversion can be passed on again.  *)

Called(name, argument, result) ==
    /\ op' = name
    /\ arg' = argument
    /\ res' = result
    /\ prev' = mask

\* ---- static algebra on two boolean-leaved masks ----

InitAlgebra ==
    /\ op = "new"
    /\ mask \in {ObjectMask(t) : t \in BoolMasks}
    /\ arg = Undefined
    /\ res = Undefined
    /\ prev = Undefined

AddMasks ==
    /\ op = "new"
    /\ \E b \in BoolMasks :
        Called("addMasks", b, addMasks(<<mask, ObjectMask(b)>>))
    /\ UNCHANGED mask

AndMasks ==
    /\ op = "new"
    /\ \E b \in BoolMasks :
        Called("andMasks", b, andMasks(<<mask, ObjectMask(b)>>))
    /\ UNCHANGED mask

SubtractMasks ==
    /\ op = "new"
    /\ \E b \in BoolMasks :
        Called("subtractMasks", b, subtractMasks(mask, ObjectMask(b)))
    /\ UNCHANGED mask

NextAlgebra == AddMasks \/ AndMasks \/ SubtractMasks

SpecAlgebra == InitAlgebra /\ [][NextAlgebra]_vars

\* ---- inversion, path resolution and removeField on one mask ----

InitPath ==
    /\ op = "new"
    /\ mask \in {ObjectMask(t) : t \in AnyMasks}
    /\ arg = Undefined
    /\ res = Undefined
    /\ prev = Undefined

InvertMask ==
    /\ op = "new"
    /\ Called("invertMask", Undefined, invertMask(mask))
    /\ UNCHANGED mask

\* invertMask of the mask invertMask returned
InvertAgain ==
    /\ op = "invertMask"
    /\ Called("invertAgain", res, invertMask(res))
    /\ UNCHANGED mask

GetSubMask ==
    /\ op = "new"
    /\ \E path \in Paths :
        Called("getSubMask", PathArg(path), getSubMask(mask, path))
    /\ UNCHANGED mask

CheckPath ==
    /\ op = "new"
    /\ \E path \in Paths :
        Called("checkPath", PathArg(path),
               IF checkPath(mask, path) THEN True ELSE False)
    /\ UNCHANGED mask

RemoveField ==
    /\ op = "new"
    /\ \E path \in WildcardPaths :
        LET r == removeField(mask, path)
        IN  /\ Called("removeField", PathArg(path), r.thrown)
            /\ mask' = r.mask

AddField ==
    /\ op = "new"
    /\ \E path \in WildcardPaths :
        LET r == addField(mask, path)
        IN  /\ Called("addField", PathArg(path), r.thrown)
            /\ mask' = r.mask

Validate ==
    /\ op = "new"
    /\ Called("validate", Undefined, IF validate(mask) THEN True ELSE False)
    /\ UNCHANGED mask

NextPath ==
    \/ InvertMask \/ InvertAgain \/ GetSubMask \/ CheckPath
    \/ RemoveField \/ AddField \/ Validate

SpecPath == InitPath /\ [][NextPath]_vars

\* ---- construction ----

InitConstruct ==
    /\ op = "none"
    /\ mask = Undefined
    /\ arg = Undefined
    /\ res = Undefined
    /\ prev = Undefined

\* new ObjectMask(tree)
Construct ==
    /\ op = "none"
    /\ \E tree \in SourceTrees :
        /\ Called("new", tree, Undefined)
        /\ mask' = ObjectMask(tree)

CreateMaskFromFieldList ==
    /\ op = "none"
    /\ \E fields \in FieldLists :
        /\ Called("createMaskFromFieldList", PathList(fields), Undefined)
        /\ mask' = createMaskFromFieldList(fields)

NextConstruct == Construct \/ CreateMaskFromFieldList

SpecConstruct == InitConstruct /\ [][NextConstruct]_vars

\* ---- filtering an object ----

InitFilter ==
    /\ op = "new"
    /\ mask \in {ObjectMask(t) : t \in FilterMasks}
    /\ arg = Undefined
    /\ res = Undefined
    /\ prev = Undefined

FilterObject ==
    /\ op = "new"
    /\ \E obj \in Objects :
        Called("filterObject", obj, filterObject(mask, obj))
    /\ UNCHANGED mask

\* filterObject of the object filterObject returned
FilterAgain ==
    /\ op = "filterObject"
    /\ Called("filterAgain", res, filterObject(mask, res))
    /\ UNCHANGED mask

GetMaskedOutFields ==
    /\ op = "new"
    /\ \E obj \in Objects :
        Called("getMaskedOutFields", obj, PathList(getMaskedOutFields(mask, obj)))
    /\ UNCHANGED mask

\* filterDottedObject of the flattened form of an object
FilterDottedObject ==
    /\ op = "new"
    /\ \E obj \in Objects :
        Called("filterDottedObject", obj,
               filterDottedObject(mask, collapseToDotted(obj)))
    /\ UNCHANGED mask

NextFilter ==
    FilterObject \/ FilterAgain \/ GetMaskedOutFields \/ FilterDottedObject

SpecFilter == InitFilter /\ [][NextFilter]_vars

\* ---- a mask, its clone and the tree it was constructed from ----
\* mask is [heap, source, original, cloned, first]: the cell of the tree
\* passed to the constructor, the cells of this.mask of the ObjectMask
\* constructed and of its clone, and whether one mutator has been called

InitClone ==
    /\ op = "new"
    /\ mask \in {LET tree == allocTree(<<>>, t)
                     made == ObjectMaskRef(tree.h, tree.v)
                 IN  [heap |-> made.h, source |-> tree.v, original |-> made.v,
                      cloned |-> Undefined, first |-> FALSE] : t \in CloneTrees}
    /\ arg = Undefined
    /\ res = Undefined
    /\ prev = Undefined

Clone ==
    /\ op = "new"
    /\ LET r == cloneRef(mask.heap, mask.original)
       IN  /\ mask' = [mask EXCEPT !.heap = r.h, !.cloned = r.v]
           /\ Called("clone", Undefined, Undefined)

\* the world after a mutator called on the ObjectMask on returned r
Mutated(on, r) ==
    [mask EXCEPT !.heap = r.h, ![on] = r.v, !.first = (op = "clone")]

AddFieldOf ==
    /\ op = "clone" \/ mask.first
    /\ \E on \in Masks, path \in ClonePaths :
        LET r == addFieldRef(mask.heap, mask[on], path)
        IN  /\ mask' = Mutated(on, r)
            /\ Called("addField", [on |-> on, p |-> path], r.e)

RemoveFieldOf ==
    /\ op = "clone" \/ mask.first
    /\ \E on \in Masks, path \in ClonePaths :
        LET r == removeFieldRef(mask.heap, mask[on], path)
        IN  /\ mask' = Mutated(on, r)
            /\ Called("removeField", [on |-> on, p |-> path], r.e)

\* the argument is a tree of its own
SubtractMaskOf ==
    /\ op = "clone" \/ mask.first
    /\ \E on \in Masks, tree \in SubtrahendTrees :
        LET sub == allocTree(mask.heap, tree)
            r == subtractMaskRef(sub.h, mask[on], sub.v)
        IN  /\ mask' = Mutated(on, r)
            /\ Called("subtractMask", [on |-> on, sub |-> tree], r.e)

\* the argument is the other ObjectMask, or the tree the original was
\* constructed from
SubtractMaskOfOther ==
    /\ op = "clone" \/ mask.first
    /\ \E on \in Masks, of \in (Masks \cup {"source"}) :
        /\ of # on
        /\ LET r == subtractMaskRef(mask.heap, mask[on], mask[of])
           IN  /\ mask' = Mutated(on, r)
               /\ Called("subtractMask", [on |-> on, sub |-> [of |-> of]], r.e)

NextClone ==
    Clone \/ AddFieldOf \/ RemoveFieldOf \/ SubtractMaskOf \/ SubtractMaskOfOther

SpecClone == InitClone /\ [][NextClone]_vars

\* ---- hashing two values ----

InitHash ==
    /\ op = "new"
    /\ mask = Undefined
    /\ arg \in [x : HashValues, y : HashValues]
    /\ res = Undefined
    /\ prev = Undefined

\* objectHash(x) and objectHash(y), the keys of the plain objects of x
\* inserted in one order and those of y in another
ObjectHash ==
    /\ op = "new"
    /\ \E orderX \in KeyOrders, orderY \in KeyOrders :
        /\ mask' = [x |-> orderX, y |-> orderY]
        /\ Called("objectHash", arg,
                  [x |-> objectHash(arg.x, orderX), y |-> objectHash(arg.y, orderY)])

NextHash == ObjectHash

SpecHash == InitHash /\ [][NextHash]_vars

\* ---- comparing two values ----

InitDiff ==
    /\ op = "new"
    /\ mask = Undefined
    /\ arg \in [x : DiffValues, y : DiffValues]
    /\ res = Undefined
    /\ prev = Undefined

DeepEquals ==
    /\ op = "new"
    /\ Called("deepEquals", arg, IF deepEquals(arg.x, arg.y) THEN True ELSE False)
    /\ UNCHANGED mask

DottedDiff ==
    /\ op = "new"
    /\ Called("dottedDiff", arg, PathSet(dottedDiff(arg.x, arg.y)))
    /\ UNCHANGED mask

\* diffObjects(x, y), the keys of the plain objects of x inserted in one
\* order and those of y in another
DiffObjects ==
    /\ op = "new"
    /\ ~isScalar(arg.x) /\ ~isScalar(arg.y)
    /\ \E orderX \in KeyOrders, orderY \in KeyOrders :
        /\ mask' = [x |-> orderX, y |-> orderY]
        /\ Called("diffObjects", arg, diffObjects(arg.x, arg.y, orderX, orderY))

NextDiff == DeepEquals \/ DottedDiff \/ DiffObjects

SpecDiff == InitDiff /\ [][NextDiff]_vars

\* ---- the static algebra on two operands in the heap ----
\* mask is [heap, a, b]: the cells of the trees of the two operands, which
\* can be one ObjectMask passed twice

InitOperands ==
    /\ op = "new"
    /\ mask \in
        {LET first == allocTree(<<>>, ta)
             second == allocTree(first.h, tb)
         IN  [heap |-> second.h, a |-> first.v, b |-> second.v] :
            ta \in OperandTrees, tb \in OperandTrees}
        \cup {LET first == allocTree(<<>>, ta)
              IN  [heap |-> first.h, a |-> first.v, b |-> first.v] : ta \in OperandTrees}
    /\ arg = Undefined
    /\ res = Undefined
    /\ prev = Undefined

\* the world after a call that returned r, and the tree or exception of r
Returned(name, r) ==
    /\ mask' = [mask EXCEPT !.heap = r.h]
    /\ Called(name, Undefined, IF r.e # Undefined THEN r.e ELSE treeOf(r.h, r.v))

AddMasksOf ==
    /\ op = "new"
    /\ Returned("addMasks", addMasksRef(mask.heap, <<mask.a, mask.b>>))

AndMasksOf ==
    /\ op = "new"
    /\ Returned("andMasks", andMasksRef(mask.heap, <<mask.a, mask.b>>))

SubtractMasksOf ==
    /\ op = "new"
    /\ Returned("subtractMasks", subtractMasksRef(mask.heap, mask.a, mask.b))

InvertMaskOf ==
    /\ op = "new"
    /\ Returned("invertMask", invertMaskRef(mask.heap, mask.a))

NextOperands == AddMasksOf \/ AndMasksOf \/ SubtractMasksOf \/ InvertMaskOf

SpecOperands == InitOperands /\ [][NextOperands]_vars

\* ---- a sequence of mutators on one mask ----
\* mask is [heap, original, first]: the cell of this.mask of the ObjectMask
\* constructed, and whether one mutator has been called

InitMutate ==
    /\ op = "new"
    /\ mask \in {LET tree == allocTree(<<>>, t)
                     made == ObjectMaskRef(tree.h, tree.v)
                 IN  [heap |-> made.h, original |-> made.v, first |-> FALSE] :
                    t \in MutatedTrees}
    /\ arg = Undefined
    /\ res = Undefined
    /\ prev = Undefined

\* the world after a mutator returned r, or threw r.e
MutatedBy(r) ==
    [mask EXCEPT !.heap = r.h, !.original = r.v, !.first = (op = "new")]

AddFieldTo ==
    /\ op = "new" \/ mask.first
    /\ \E path \in ClonePaths :
        LET r == addFieldRef(mask.heap, mask.original, path)
        IN  /\ mask' = MutatedBy(r)
            /\ Called("addField", PathArg(path), r.e)

RemoveFieldFrom ==
    /\ op = "new" \/ mask.first
    /\ \E path \in ClonePaths :
        LET r == removeFieldRef(mask.heap, mask.original, path)
        IN  /\ mask' = MutatedBy(r)
            /\ Called("removeField", PathArg(path), r.e)

SubtractMaskFrom ==
    /\ op = "new" \/ mask.first
    /\ \E tree \in SubtrahendTrees :
        LET sub == allocTree(mask.heap, tree)
            r == subtractMaskRef(sub.h, mask.original, sub.v)
        IN  /\ mask' = MutatedBy(r)
            /\ Called("subtractMask", tree, r.e)

NextMutate == AddFieldTo \/ RemoveFieldFrom \/ SubtractMaskFrom

SpecMutate == InitMutate /\ [][NextMutate]_vars

\* ======================= properties =======================

\* the mask entry a key resolves to: its own entry when present, else the
\* wildcard entry, else undefined
maskValOf(m, key) == IF hasKey(m, key) THEN getKey(m, key) ELSE getKey(m, "_")

\* the keys of obj that filtering under m keeps: the resolved entry is exactly
\* true and the value is not undefined, or the resolved entry is a map and the
\* value is a map or a sequence
keptUnder(m, obj, key) ==
    LET maskVal == maskValOf(m, key)
        child == getKey(obj, key)
    IN  \/ maskVal = True /\ child # Undefined
        \/ ~isScalar(maskVal) /\ ~isScalar(child)

\* some map of the mask, at any depth, has an entry under a sequence index
RECURSIVE hasIndexKey(_)
hasIndexKey(m) ==
    /\ isMap(m)
    /\ \/ \E i \in 1..Len(IndexKeys) : hasKey(m, IndexKeys[i])
       \/ \E key \in keysOf(m) : hasIndexKey(getKey(m, key))

\* C1 (as stated): filterObject on a map keeps a key exactly when the mask entry
\* the key resolves to (own entry, else wildcard) is truthy
C1_KeptIffResolvedTruthy ==
    op = "filterObject" /\ isMap(arg) /\ ~isScalar(mask) =>
        /\ isMap(res)
        /\ \A key \in keysOf(arg) :
            hasKey(res, key) <=> Truthy(maskValOf(mask, key))

\* C1 (amended): filterObject on a map or sequence keeps a key exactly when the
\* resolved mask entry is true and the value is not undefined, or the resolved
\* entry is a map and the value is a map or a sequence; the kept value is the
\* child filtered under the resolved entry, no other key appears, and a
\* sequence keeps its kept elements in order, re-indexed from 0
C1_KeptIffResolvedKeeps ==
    op = "filterObject" /\ ~isScalar(arg) /\ ~isScalar(mask) =>
        LET kept == {key \in keysOf(arg) : keptUnder(mask, arg, key)}
            filtered(key) == filterDeep(getKey(arg, key),
                                        orFalse(maskValOf(mask, key)))
        IN  IF isMap(arg)
                THEN /\ isMap(res)
                     /\ keysOf(res) = kept
                     /\ \A key \in kept : getKey(res, key) = filtered(key)
                ELSE LET keptIdx == {i \in 1..Len(arg.a) : IndexKeys[i] \in kept}
                         rank(i) == Cardinality({j \in keptIdx : j <= i})
                     IN  /\ isArray(res)
                         /\ Len(res.a) = Cardinality(keptIdx)
                         /\ \A i \in keptIdx :
                                res.a[rank(i)] = filtered(IndexKeys[i])

\* C1 witness: a key with a false entry is dropped although the wildcard is
\* true, and its sibling is kept through the wildcard
C1_Witness ==
    /\ op = "filterObject"
    /\ mask = Mp([k \in {"a", "_"} |-> IF k = "a" THEN False ELSE True])
    /\ arg = Mp([k \in {"a", "b"} |-> Str])
    /\ res = Mp([k \in {"b"} |-> Str])

\* C2 (as stated): filtering the result of filterObject again with the same
\* mask returns a deeply equal result
C2_FilterIdempotent ==
    op = "filterAgain" => deepEquals(res, arg)

\* C2 (amended): for a mask with no entry under a sequence index, filtering the
\* result of filterObject again with the same mask returns an equal result
C2_FilterIdempotentNoIndexKey ==
    op = "filterAgain" /\ ~hasIndexKey(mask) => res = arg

\* C2 witness: a two-element sequence that the first filtering changed comes
\* back unchanged from the second filtering
C2_Witness ==
    /\ op = "filterAgain"
    /\ ~hasIndexKey(mask)
    /\ isArray(arg) /\ Len(arg.a) = 2 /\ arg.a[1] # arg.a[2]
    /\ res = arg

\* C3 (as stated): for boolean-leaved masks a and b and every path p of
\* concrete keys, checkPath(p) on addMasks(a, b) is true exactly when it is
\* true on a or on b
C3_AddAllowsIffEither ==
    op = "addMasks" =>
        \A p \in Paths :
            checkPath(res, p) <=> (checkPath(mask, p) \/ checkPath(arg, p))

\* C3 witness of the divergence: the sum does not allow a path its first
\* operand allows
C3_Witness ==
    /\ op = "addMasks"
    /\ \E p \in Paths : checkPath(mask, p) /\ ~checkPath(res, p)

\* C4: for boolean-leaved masks a and b and every path p of concrete keys,
\* checkPath(p) on andMasks(a, b) is true exactly when it is true on a and on b
C4_AndAllowsIffBoth ==
    op = "andMasks" =>
        \A p \in Paths :
            checkPath(res, p) <=> (checkPath(mask, p) /\ checkPath(arg, p))

\* C4 witness: a key one operand allows by name and the other denies by name
\* under a true wildcard is dropped, its sibling is kept
C4_Witness ==
    /\ op = "andMasks"
    /\ mask = Mp([k \in {"a", "b"} |-> True])
    /\ arg = Mp([k \in {"a", "_"} |-> IF k = "a" THEN False ELSE True])
    /\ res = Mp([k \in {"b"} |-> True])

\* C5 (as stated): for boolean-leaved masks a and b and every path p of
\* concrete keys, if subtractMasks(a, b) allows p then a allows p and b does not
C5_DifferenceWithinMinuend ==
    op = "subtractMasks" /\ ~isThrown(res) =>
        \A p \in Paths :
            checkPath(res, p) => (checkPath(mask, p) /\ ~checkPath(arg, p))

\* C5 witness of the divergence: the difference allows a path the minuend
\* does not allow
C5_Witness ==
    /\ op = "subtractMasks"
    /\ ~isThrown(res)
    /\ \E p \in Paths : checkPath(res, p) /\ ~checkPath(mask, p)

\* C8: for a boolean-leaved mask m, andMasks(m, true) equals m,
\* andMasks(m, false) is false, addMasks(m, true) is true and
\* addMasks(m, false) equals m
C8_IdentityAndAbsorbing ==
    /\ op = "andMasks" /\ arg = True => res = mask
    /\ op = "andMasks" /\ arg = False => res = False
    /\ op = "addMasks" /\ arg = True => res = True
    /\ op = "addMasks" /\ arg = False => res = mask

\* C8 witness: a map mask with a wildcard and a named entry comes back from
\* addMasks(m, false)
C8_Witness ==
    /\ op = "addMasks"
    /\ arg = False
    /\ mask = Mp([k \in {"a", "_"} |-> IF k = "a" THEN False ELSE True])
    /\ res = mask

\* some map of the mask, at any depth, has a wildcard entry that is false
RECURSIVE hasFalseWildcard(_)
hasFalseWildcard(m) ==
    /\ isMap(m)
    /\ \/ (hasKey(m, "_") /\ getKey(m, "_") = False)
       \/ \E key \in keysOf(m) : hasFalseWildcard(getKey(m, key))

\* the segment-by-segment resolution of a path: at a map the entry of the exact
\* key when the key is present, otherwise the wildcard entry, otherwise false;
\* a scalar ends it whatever segments remain
RECURSIVE resolution(_, _)
resolution(m, path) ==
    IF isScalar(m) \/ path = <<>> THEN m
    ELSE resolution(IF Head(path) \in keysOf(m) THEN m.m[Head(path)]
                    ELSE IF "_" \in keysOf(m) THEN m.m["_"]
                    ELSE False,
                    Tail(path))

\* C6 (as stated): for any mask m and every path p of concrete keys,
\* checkPath(p) on m is the negation of checkPath(p) on invertMask(m)
C6_InvertDuality ==
    op = "invertMask" =>
        \A p \in Paths : checkPath(mask, p) <=> ~checkPath(res, p)

\* C6 (amended): for any mask m and every path p of concrete keys, if
\* getSubMask(p) of m is the boolean true or false (m resolves at p to true or
\* to a falsy value) then checkPath(p) on m is the negation of checkPath(p) on
\* invertMask(m); at every other path (m resolves to a map or to a truthy
\* scalar other than true) checkPath(p) is false on both
C6_InvertDualityAtBooleans ==
    op = "invertMask" =>
        \A p \in Paths :
            IF getSubMask(mask, p) \in {True, False}
                THEN checkPath(mask, p) <=> ~checkPath(res, p)
                ELSE ~checkPath(mask, p) /\ ~checkPath(res, p)

\* C6 witness: a path denied by name under a true wildcard is allowed by the
\* inverted mask, and a path allowed through the wildcard is denied by it
C6_Witness ==
    /\ op = "invertMask"
    /\ mask = Mp([k \in {"a", "_"} |-> IF k = "a" THEN False ELSE True])
    /\ checkPath(res, <<"a">>) /\ ~checkPath(mask, <<"a">>)
    /\ ~checkPath(res, <<"b">>) /\ checkPath(mask, <<"b">>)

\* C7 (as stated): for a boolean-leaved mask m, invertMask(invertMask(m)) is
\* deep-equal to m
C7_InvertInvolution ==
    op = "invertAgain" /\ validate(mask) => deepEquals(res, mask)

\* C7 (amended): for a boolean-leaved mask m in which no map has a wildcard
\* entry that is false, invertMask(invertMask(m)) equals m; for every
\* boolean-leaved m it allows exactly the paths m allows
C7_InvertInvolutionNoFalseWildcard ==
    op = "invertAgain" /\ validate(mask) =>
        /\ ~hasFalseWildcard(mask) => res = mask
        /\ \A p \in Paths : checkPath(res, p) <=> checkPath(mask, p)

\* C7 witness: a mask with a map under its wildcard comes back from two
\* inversions, the first of which denied the named key under a true wildcard
C7_Witness ==
    /\ op = "invertAgain"
    /\ mask = Mp([k \in {"_"} |-> Mp([j \in {"a"} |-> True])])
    /\ arg = Mp([k \in {"_"} |->
                    Mp([j \in {"a", "_"} |-> IF j = "a" THEN False ELSE True])])
    /\ res = mask

\* C9: getSubMask(path) resolves the path segment by segment (exact key when
\* present, even if false, otherwise the wildcard, otherwise false), stops at
\* the first scalar, and returns false for a falsy resolution; checkPath(path)
\* is true exactly when the resolution ends at the boolean true
C9_SegmentwiseResolution ==
    /\ op = "getSubMask" =>
        res = (IF Truthy(resolution(mask, arg.p)) THEN resolution(mask, arg.p)
               ELSE False)
    /\ op = "checkPath" =>
        /\ res \in {True, False}
        /\ res = True <=> resolution(mask, arg.p) = True

\* C9 witness: a key present with a false entry resolves to false although the
\* wildcard is true, with a segment left over
C9_Witness ==
    /\ op = "checkPath"
    /\ mask = Mp([k \in {"a", "_"} |-> IF k = "a" THEN False ELSE True])
    /\ arg = PathArg(<<"a", "b">>)
    /\ res = False
    /\ checkPath(mask, <<"b", "a">>)

\* C10 (as stated): for a boolean-leaved mask (the roots true and false and
\* masks with a true wildcard included) and a path p of concrete keys,
\* removeField(p) completes without error and afterwards checkPath(p) is false
C10_RemoveFieldRemoves ==
    op = "removeField" /\ validate(prev) /\ arg.p \in Paths =>
        /\ res = Undefined
        /\ ~checkPath(mask, arg.p)

\* C10 witness of the divergence: removeField throws on a boolean-leaved mask
\* and the path is still allowed afterwards
C10_Witness ==
    /\ op = "removeField"
    /\ validate(prev)
    /\ arg.p \in Paths
    /\ isThrown(res)
    /\ checkPath(mask, arg.p)

\* one path is a prefix of the other (or they are the same path)
prefixRelated(p, q) ==
    \A i \in 1..(IF Len(p) < Len(q) THEN Len(p) ELSE Len(q)) : p[i] = q[i]

C12_RemoveWildcardThrows ==
    op = "removeField" /\ arg.p[Len(arg.p)] = "_" =>
        /\ res = Thrown("Error")
        /\ mask = prev

\* C12 witness: the wildcard below a key is refused on a mask whose wildcard
\* allows that path
C12_Witness ==
    /\ op = "removeField"
    /\ arg = PathArg(<<"a", "_">>)
    /\ prev = Mp([k \in {"_"} |-> True])
    /\ res = Thrown("Error")
    /\ mask = prev

\* C13 (as stated): for a boolean-leaved mask (the roots true and false
\* included) and a path p of concrete keys, addField(p) completes without
\* error, afterwards checkPath(p) is true, and the tree is unchanged when
\* checkPath(p) was true before
C13_AddFieldAdds ==
    op = "addField" /\ validate(prev) /\ arg.p \in Paths =>
        /\ res = Undefined
        /\ checkPath(mask, arg.p)
        /\ checkPath(prev, arg.p) => mask = prev

\* C13, what holds: the same for every boolean-leaved mask but the root false
C13_AddFieldAddsUnlessFalse ==
    op = "addField" /\ validate(prev) /\ arg.p \in Paths /\ prev # False =>
        /\ res = Undefined
        /\ checkPath(mask, arg.p)
        /\ checkPath(prev, arg.p) => mask = prev

\* C13 witness of the divergence: addField throws on the root mask false and
\* the path is not allowed afterwards
C13_Witness ==
    /\ op = "addField"
    /\ prev = False
    /\ arg.p \in Paths
    /\ isThrown(res)
    /\ ~checkPath(mask, arg.p)

\* C14 (as stated): subtractMasks of two boolean-leaved masks never fails
C14_SubtractNeverFails ==
    op = "subtractMasks" => ~isThrown(res)

\* C14, what holds: subtractMasks of two boolean-leaved masks never throws
\* the Error of subtracting non-boolean scalars
C14_SubtractNoScalarError ==
    op = "subtractMasks" => res # Thrown("Error")

\* C14 witness of the divergence: the subtraction of two boolean-leaved masks
\* that both have a wildcard throws a TypeError
C14_Witness ==
    /\ op = "subtractMasks"
    /\ validate(mask) /\ validate(arg)
    /\ hasKey(mask, "_") /\ hasKey(arg, "_")
    /\ res = Thrown("TypeError")

\* C15 (as stated): subtractMasks(false, s) is deep-equal to invertMask(s) for
\* every boolean-leaved mask s
C15_FalseMinuendInverts ==
    op = "subtractMasks" /\ mask = False => deepEquals(res, invertMask(arg))

\* C15 (amended): subtractMasks(false, s) is false and subtractMasks(true, s)
\* equals invertMask(s) for every boolean-leaved mask s; below the root, a key
\* of the subtrahend that the minuend does not have (neither map having a
\* wildcard) gets the inverse of the subtrahend's entry, a false one being
\* left out, whenever the subtraction returns a tree
C15_ScalarMinuendShortCircuit ==
    op = "subtractMasks" =>
        /\ mask = False => res = False
        /\ mask = True => res = invertMask(arg)
        /\ isMap(mask) /\ isMap(arg) /\ mask # arg /\ ~isThrown(res)
                /\ ~hasKey(mask, "_") /\ ~hasKey(arg, "_") =>
            /\ isMap(res)
            /\ \A key \in keysOf(arg) \ keysOf(mask) :
                orFalse(getKey(res, key)) = invert(getKey(arg, key))

\* C15 witness: false minus a map mask is false although the inverse of the
\* map allows a path
C15_Witness ==
    /\ op = "subtractMasks"
    /\ mask = False
    /\ arg = Mp([k \in {"a"} |-> Mp([j \in {"b"} |-> False])])
    /\ res = False
    /\ checkPath(invertMask(arg), <<"a", "b">>)

\* C16: filterObject on a sequence under a map mask returns a sequence that
\* holds exactly the filtered images of the kept elements (those whose image
\* is not undefined), in their original order, at the indices 0..k-1
C16_FilteredSequenceDense ==
    op = "filterObject" /\ isArray(arg) /\ isMap(mask) =>
        LET image(i) == filterDeep(arg.a[i], orFalse(maskValOf(mask, IndexKeys[i])))
            keptIdx == {i \in 1..Len(arg.a) : image(i) # Undefined}
        IN  /\ isArray(res)
            /\ Len(res.a) = Cardinality(keptIdx)
            /\ \A n \in 1..Len(res.a) : res.a[n] # Undefined
            /\ \A i \in keptIdx :
                res.a[Cardinality({j \in keptIdx : j <= i})] = image(i)

\* C16 witness: the first element of a sequence is dropped by the entry of
\* index 0 and the second moves to index 0
C16_Witness ==
    /\ op = "filterObject"
    /\ mask = Mp([k \in {"0", "_"} |-> IF k = "0" THEN False ELSE True])
    /\ arg = Ar(<<Str, EmptyObj>>)
    /\ res = Ar(<<EmptyObj>>)

\* the paths of the keys of obj, at any depth, that are not in the result of
\* filtering obj under the map mask m
RECURSIVE droppedKeys(_, _, _)
droppedKeys(obj, m, path) ==
    UNION {LET maskVal == maskValOf(m, key)
               child == getKey(obj, key)
           IN  IF filterDeep(child, orFalse(maskVal)) = Undefined
                   THEN {Append(path, key)}
               ELSE IF maskVal = True THEN {}
               ELSE droppedKeys(child, maskVal, Append(path, key)) :
           key \in keysOf(obj)}

\* the same, without the keys whose value is undefined and whose resolved mask
\* is true: the mask allows them and the result has no use for them
RECURSIVE excludedKeys(_, _, _)
excludedKeys(obj, m, path) ==
    UNION {LET maskVal == maskValOf(m, key)
               child == getKey(obj, key)
           IN  IF maskVal = True THEN {}
               ELSE IF filterDeep(child, orFalse(maskVal)) = Undefined
                   THEN {Append(path, key)}
               ELSE excludedKeys(child, maskVal, Append(path, key)) :
           key \in keysOf(obj)}

\* C17 (as stated): in one pass over a map or sequence the hook is called
\* exactly once for each key dropped from the result, with the key's path, and
\* no reported path lies below another; getMaskedOutFields returns that list
C17_HookOncePerDroppedKey ==
    op = "getMaskedOutFields" /\ ~isScalar(arg) /\ isMap(mask) =>
        /\ \A i, j \in 1..Len(res.l) :
            i # j => ~prefixRelated(res.l[i], res.l[j])
        /\ {res.l[i] : i \in 1..Len(res.l)} = droppedKeys(arg, mask, <<>>)

\* C17 (amended): in one pass over a map or sequence the hook is called
\* exactly once for each key dropped from the result whose resolved mask is
\* not true (a key with the value undefined under the mask true is dropped
\* without a call), with the key's path, and no reported path lies below
\* another; getMaskedOutFields returns that list
C17_HookOncePerExcludedKey ==
    op = "getMaskedOutFields" /\ ~isScalar(arg) /\ isMap(mask) =>
        /\ \A i, j \in 1..Len(res.l) :
            i # j => ~prefixRelated(res.l[i], res.l[j])
        /\ {res.l[i] : i \in 1..Len(res.l)} = excludedKeys(arg, mask, <<>>)

\* C17 witness: a branch with a key below it is excluded and reported once,
\* at the top
C17_Witness ==
    /\ op = "getMaskedOutFields"
    /\ mask = Mp([k \in {"a", "_"} |-> IF k = "a" THEN False ELSE True])
    /\ arg = Mp([k \in {"a"} |-> Mp([j \in {"b"} |-> Str])])
    /\ res = PathList(<< <<"a">> >>)

\* filtering obj under m moves an element of a sequence to a lower index: an
\* element is dropped before one that is kept
RECURSIVE reindexes(_, _)
reindexes(obj, m) ==
    /\ m # True /\ Truthy(m) /\ ~isScalar(obj) /\ ~isScalar(m)
    /\ LET image(key) == filterDeep(getKey(obj, key), orFalse(maskValOf(m, key)))
       IN  \/ /\ isArray(obj)
              /\ \E i, j \in 1..Len(obj.a) :
                    /\ i < j
                    /\ image(IndexKeys[i]) = Undefined
                    /\ image(IndexKeys[j]) # Undefined
           \/ \E key \in keysOf(obj) :
                reindexes(getKey(obj, key), orFalse(maskValOf(m, key)))

\* C18 (as stated): for any mask m and value v, filterDottedObject of
\* collapseToDotted(v) is deep-equal to collapseToDotted of filterObject(v)
C18_DottedFilterEquivalent ==
    op = "filterDottedObject" =>
        deepEquals(res, collapseToDotted(filterObject(mask, arg)))

\* C18 (amended): for any mask m and any value v in which filtering drops no
\* element of a sequence before a kept one, filterDottedObject of
\* collapseToDotted(v) is deep-equal to collapseToDotted of filterObject(v)
C18_DottedFilterEquivalentNoReindex ==
    op = "filterDottedObject" /\ ~reindexes(arg, mask) =>
        deepEquals(res, collapseToDotted(filterObject(mask, arg)))

\* C18 witness: the leaf of a map inside a sequence is kept under its dotted
\* key, as in the flattened structural result
C18_Witness ==
    /\ op = "filterDottedObject"
    /\ mask = Mp([k \in {"_"} |-> Mp([j \in {"a"} |-> True])])
    /\ arg = Ar(<<Mp([j \in {"a"} |-> Str])>>)
    /\ res = Mp([dotted \in {<<"0", "a">>} |-> Str])
    /\ res = collapseToDotted(filterObject(mask, arg))

\* the tree has an array node, at any depth
RECURSIVE hasArray(_)
hasArray(tree) ==
    \/ isArray(tree)
    \/ \E key \in keysOf(tree) : hasArray(getKey(tree, key))

\* the canonical form of a tree: each array replaced by the map from the
\* wildcard to the canonical form of its first element
RECURSIVE canonical(_)
canonical(tree) ==
    IF isArray(tree) THEN Mp("_" :> canonical(getKey(tree, "0")))
    ELSE IF isMap(tree) THEN Mp([key \in keysOf(tree) |-> canonical(getKey(tree, key))])
    ELSE tree

\* an array is the first element of an array, at any depth of the tree
RECURSIVE hasArrayInArray(_)
hasArrayInArray(tree) ==
    \/ isArray(tree) /\ isArray(getKey(tree, "0"))
    \/ \E key \in keysOf(tree) : hasArrayInArray(getKey(tree, key))

\* C19 (as stated): after new ObjectMask(tree) the stored tree has no array at
\* any depth, the root and an array directly inside an array included; each
\* array of the input is replaced by the map {_: canonical form of its first
\* element}
C19_ConstructionCanonical ==
    op = "new" => ~hasArray(mask) /\ mask = canonical(arg)

\* C19, what holds: the same when the root of the input is a map and the first
\* element of no array is an array
C19_ConstructionCanonicalOfMaps ==
    op = "new" /\ isMap(arg) /\ ~hasArrayInArray(arg) =>
        ~hasArray(mask) /\ mask = canonical(arg)

\* C19 witness of the divergence: an array directly inside an array is still
\* an array of the stored tree
C19_Witness ==
    /\ op = "new"
    /\ arg = Mp("a" :> Ar(<<Ar(<<True>>)>>))
    /\ mask = Mp("a" :> Mp("_" :> Ar(<<True>>)))

\* p is a prefix of q and shorter than q
properPrefix(p, q) == Len(p) < Len(q) /\ prefixRelated(p, q)

\* the lists that hold the fields of the list in another order
reorderings(fields) ==
    {[i \in 1..Len(fields) |-> fields[perm[i]]] :
        perm \in {f \in [1..Len(fields) -> 1..Len(fields)] :
                    \A i, j \in 1..Len(fields) : i # j => f[i] # f[j]}}

\* C20: createMaskFromFieldList(paths) returns a mask that allows every listed
\* path; a listed path that is a proper prefix of another listed path maps to
\* true in the tree (the longer one is absorbed); the list in any other order
\* gives the same tree
C20_FieldListAllowsListed ==
    op = "createMaskFromFieldList" =>
        /\ \A i \in 1..Len(arg.l) : checkPath(mask, arg.l[i])
        /\ \A i, j \in 1..Len(arg.l) :
            properPrefix(arg.l[i], arg.l[j]) => resolution(mask, arg.l[i]) = True
        /\ \A fields \in reorderings(arg.l) : createMaskFromFieldList(fields) = mask

\* C20 witness: a path listed before a longer path below it absorbs it
C20_Witness ==
    /\ op = "createMaskFromFieldList"
    /\ arg = PathList(<< <<"a">>, <<"a", "b">> >>)
    /\ mask = Mp("a" :> True)

\* the scalars at the leaves of a tree
RECURSIVE leavesOf(_)
leavesOf(tree) ==
    IF isScalar(tree) THEN {tree}
    ELSE UNION {leavesOf(getKey(tree, key)) : key \in keysOf(tree)}

\* C21: validate() returns true exactly when every leaf of the mask tree is a
\* boolean; any other scalar leaf, at any depth, makes it return false
C21_ValidateIffBooleanLeaves ==
    op = "validate" =>
        /\ res \in {True, False}
        /\ res = True <=> leavesOf(mask) \subseteq {True, False}

\* C21 witness: a date two levels down invalidates the tree
C21_Witness ==
    /\ op = "validate"
    /\ mask = Mp("a" :> Mp("b" :> Date))
    /\ res = False

\* the ObjectMask a mutator was not called on
otherMask(on) == IF on = "original" THEN "cloned" ELSE "original"

\* the trees of the source, the original and the clone in a world
treesOf(world) ==
    [name \in Masks \cup {"source"} |-> treeOf(world.heap, world[name])]

\* C22: a clone is independent of its original: addField, removeField and
\* subtractMask called on one of the two leave the tree of the other as it
\* was, and leave the tree that was passed to the constructor as it was
C22_CloneIndependent ==
    op \in {"addField", "removeField", "subtractMask"} =>
        /\ treesOf(mask)[otherMask(arg.on)] = treesOf(prev)[otherMask(arg.on)]
        /\ treesOf(mask).source = treesOf(prev).source

C22_Witness ==
    /\ op = "removeField"
    /\ arg = [on |-> "cloned", p |-> <<"a", "a">>]
    /\ ~mask.first
    /\ treesOf(prev).cloned = Mp("a" :> Mp("a" :> True))
    /\ treesOf(mask).cloned = Mp("a" :> Mp("a" :> False))
    /\ treesOf(mask).original = False
    /\ treesOf(mask).source = Mp("a" :> Mp("a" :> True))

\* the key objectHash hashes or returns
keyOf(hash) == IF "hk" \in DOMAIN hash THEN hash.hk ELSE hash.md5

\* C23: objectHash depends on structure only: the keys built for two values
\* are the same exactly when the values are structurally equal, whatever the
\* order of the keys of their maps; the hashes of structurally equal values
\* are equal, and those of different values with keys of at most 40
\* characters differ
C23_HashStructural ==
    op = "objectHash" =>
        /\ keyOf(res.x) = keyOf(res.y) <=> arg.x = arg.y
        /\ arg.x = arg.y => res.x = res.y
        /\ (arg.x # arg.y /\ Len(keyOf(res.x)) <= MAX_KEY_SIZE
                /\ Len(keyOf(res.y)) <= MAX_KEY_SIZE) => res.x # res.y

\* two Dates a millisecond apart have one hash
C23_Witness ==
    /\ op = "objectHash"
    /\ arg = [x |-> DateAt(0), y |-> DateAt(1)]
    /\ res.x = res.y

\* C23, for values that hold no Date
C23_HashStructuralNoDate ==
    (op = "objectHash" /\ \A v \in leavesOf(arg.x) \cup leavesOf(arg.y) : v.s # "date") =>
        /\ keyOf(res.x) = keyOf(res.y) <=> arg.x = arg.y
        /\ arg.x = arg.y => res.x = res.y
        /\ (arg.x # arg.y /\ Len(keyOf(res.x)) <= MAX_KEY_SIZE
                /\ Len(keyOf(res.y)) <= MAX_KEY_SIZE) => res.x # res.y

\* the concrete keys of a map node whose mask is the mask of its wildcard
redundantKeys(node) ==
    {key \in keysOf(node) \ {"_"} :
        hasKey(node, "_") /\ getKey(node, key) = getKey(node, "_")}

\* some map node of the tree has a redundant key
RECURSIVE hasRedundancy(_)
hasRedundancy(tree) ==
    /\ ~isScalar(tree)
    /\ \/ redundantKeys(tree) # {}
       \/ \E key \in keysOf(tree) : hasRedundancy(getKey(tree, key))

\* the merge of addMask with every key kept: no key is removed for being
\* set to the same thing as the wildcard
RECURSIVE mergeKeepingKeys(_, _)
mergeKeepingKeys(resultMask, newMask) ==
    IF resultMask = True \/ newMask = True THEN True
    ELSE IF isScalar(newMask) THEN resultMask
    ELSE IF isScalar(resultMask) THEN newMask
    ELSE
        LET wildNew == getKey(newMask, "_")
            wildRes == getKey(resultMask, "_")
            r1 == [key \in keysOf(resultMask) |->
                    IF hasKey(newMask, "_") /\ key # "_" /\ ~hasKey(newMask, key)
                        THEN mergeKeepingKeys(getKey(resultMask, key), wildNew)
                        ELSE getKey(resultMask, key)]
            r2 == [key \in keysOf(newMask) \ {"_"} |->
                    IF hasKey(resultMask, key)
                        THEN mergeKeepingKeys(getKey(resultMask, key), getKey(newMask, key))
                    ELSE IF hasKey(resultMask, "_")
                        THEN mergeKeepingKeys(getKey(newMask, key), wildRes)
                    ELSE getKey(newMask, key)] @@ r1
            r3 == IF hasKey(newMask, "_")
                    THEN ("_" :> (IF hasKey(resultMask, "_")
                                    THEN mergeKeepingKeys(wildRes, wildNew)
                                    ELSE wildNew)) @@ r2
                    ELSE r2
        IN  Mp(r3)

\* C24: in the tree addMasks(a, b) returns for two map-valued masks, no map
\* node with a wildcard entry has a concrete key whose mask is the mask of
\* the wildcard, and the removal of such keys changes checkPath for no path:
\* the tree allows what the merge with every key kept allows
C24_AddMasksRemovesRedundancy ==
    (op = "addMasks" /\ isMap(mask) /\ isMap(arg)) =>
        /\ ~hasRedundancy(res)
        /\ \A p \in Paths :
                checkPath(res, p) <=> checkPath(mergeKeepingKeys(mask, arg), p)

\* the key a, whose mask {} allows nothing, is removed for being deep-equal
\* to the wildcard true, and a is allowed
C24_Witness ==
    /\ op = "addMasks"
    /\ mask = EmptyObj
    /\ arg = Mp(("a" :> EmptyObj) @@ ("_" :> True))
    /\ res = Mp("_" :> True)
    /\ checkPath(res, <<"a">>)
    /\ ~checkPath(mergeKeepingKeys(mask, arg), <<"a">>)

\* C25: deepEquals(a, b) is true exactly when a and b are structurally
\* equal: the same scalar (dates by instant), sequences of the same length
\* with deep-equal elements, or maps with deep-equal values under every key;
\* a scalar is never deep-equal to a map or a sequence, nor a sequence to a map
C25_DeepEqualsStructural ==
    op = "deepEquals" => (res = True <=> arg.x = arg.y)

\* a map without keys is deep-equal to true
C25_Witness ==
    /\ op = "deepEquals"
    /\ arg = [x |-> EmptyObj, y |-> True]
    /\ res = True

\* C25, for two scalars, two sequences of scalars or two maps of scalars
C25_DeepEqualsOfAKind ==
    (/\ op = "deepEquals"
     /\ \/ isScalar(arg.x) /\ isScalar(arg.y)
        \/ /\ isArray(arg.x) <=> isArray(arg.y)
           /\ \A v \in {arg.x, arg.y} : ~isScalar(v)
                /\ \A key \in keysOf(v) : isScalar(getKey(v, key)))
        => (res = True <=> arg.x = arg.y)

\* the dotted paths a value of the universe can have
DiffPaths == UNION {[1..i -> {"a", "b", "0", "1", "2"}] : i \in 0..(MaxDataEntries + 1)}

\* the value has something at the path
RECURSIVE isPresent(_, _)
isPresent(value, path) ==
    \/ path = <<>>
    \/ /\ hasKey(value, Head(path))
       /\ isPresent(getKey(value, Head(path)), Tail(path))

RECURSIVE valueAt(_, _)
valueAt(value, path) ==
    IF path = <<>> THEN value ELSE valueAt(getKey(value, Head(path)), Tail(path))

\* the two values diverge at the path, and not above it
divergesAt(val1, val2, path) ==
    /\ \A i \in 0..(Len(path) - 1) :
            /\ isPresent(val1, SubSeq(path, 1, i)) /\ ~isScalar(valueAt(val1, SubSeq(path, 1, i)))
            /\ isPresent(val2, SubSeq(path, 1, i)) /\ ~isScalar(valueAt(val2, SubSeq(path, 1, i)))
    /\ \/ isPresent(val1, path) # isPresent(val2, path)
       \/ /\ isPresent(val1, path) /\ isPresent(val2, path)
          /\ \/ /\ isScalar(valueAt(val1, path)) /\ isScalar(valueAt(val2, path))
                /\ valueAt(val1, path) # valueAt(val2, path)
             \/ isScalar(valueAt(val1, path)) # isScalar(valueAt(val2, path))

\* C26: dottedDiff(v1, v2) returns exactly the shallowest dotted paths at
\* which the two values diverge: a path is returned if and only if all its
\* proper prefixes are containers in both values and at the path either only
\* one value has the key, or the values are unequal scalars, or a scalar and
\* a container; no path returned is a prefix of another, and none is
\* returned if and only if the two values are deep-equal
C26_DottedDiffShallowest ==
    op = "dottedDiff" =>
        /\ res.set = {path \in DiffPaths : divergesAt(arg.x, arg.y, path)}
        /\ \A p \in res.set, q \in res.set : ~properPrefix(p, q)
        /\ res.set = {} <=> arg.x = arg.y

\* two Dates of one instant diverge at the root
C26_Witness ==
    /\ op = "dottedDiff"
    /\ arg = [x |-> DateAt(0), y |-> DateAt(0)]
    /\ res.set = {<<>>}

\* C26, without its last part and for values that are not both Dates
C26_DottedDiffShallowestNotDates ==
    (op = "dottedDiff" /\ ~(arg.x = DateAt(0) /\ arg.y = DateAt(0))) =>
        /\ res.set = {path \in DiffPaths : divergesAt(arg.x, arg.y, path)}
        /\ \A p \in res.set, q \in res.set : ~properPrefix(p, q)

\* the values of two maps differ at the key, or one map only has the key
differsAtKey(obj1, obj2, key) ==
    \/ hasKey(obj1, key) # hasKey(obj2, key)
    \/ getKey(obj1, key) # getKey(obj2, key)

\* C27: diffObjects reports every divergent key: for two map operands every
\* key at which their values differ, a key that only one of them has among
\* them wherever it stands in the order of the keys, is in the result, with
\* the sequence of the operands' values at the key (null where absent) when
\* these are scalars; a key at which the values are equal is not in it
C27_DiffReportsDivergentKeys ==
    (op = "diffObjects" /\ isMap(arg.x) /\ isMap(arg.y)) =>
        \A key \in keysOf(arg.x) \cup keysOf(arg.y) \cup keysOf(res) :
            /\ hasKey(res, key) <=> differsAtKey(arg.x, arg.y, key)
            /\ (/\ differsAtKey(arg.x, arg.y, key)
                /\ isScalar(getKey(arg.x, key)) /\ isScalar(getKey(arg.y, key)))
                    => getKey(res, key) = Ar(<<getValueAtKeyOrNull(arg.x, key),
                                               getValueAtKeyOrNull(arg.y, key)>>)

\* the one key of the second operand is not reported
C27_Witness ==
    /\ op = "diffObjects"
    /\ arg = [x |-> EmptyObj, y |-> Mp("a" :> Num(1))]
    /\ res = EmptyObj

\* C28: addField never revokes an allowance: for a mask whose leaves are all
\* booleans, any path p and every path q of concrete keys, checkPath(q) is
\* true after addField(p) if it was true before, also when q was allowed
\* through a wildcard entry on the way to p
C28_AddFieldKeepsAllowances ==
    (op = "addField" /\ leavesOf(prev) \subseteq {True, False}) =>
        \A q \in Paths : checkPath(prev, q) => checkPath(mask, q)

\* a.a, allowed through the wildcard, is not allowed after addField('a.b')
C28_Witness ==
    /\ op = "addField"
    /\ arg = PathArg(<<"a", "b">>)
    /\ prev = Mp("_" :> Mp("a" :> True))
    /\ mask = Mp(("_" :> Mp("a" :> True)) @@ ("a" :> Mp("b" :> True)))
    /\ checkPath(prev, <<"a", "a">>)
    /\ ~checkPath(mask, <<"a", "a">>)

\* the trees of the two operands in a world
operandsOf(world) ==
    [name \in {"a", "b"} |-> treeOf(world.heap, world[name])]

\* C29: the static algebra leaves its operands unchanged: after addMasks,
\* andMasks, subtractMasks or invertMask every operand is deep-equal to what
\* it was before the call, whatever the operands and whether the call
\* returns or fails
C29_OperandsUnchanged ==
    op \in {"addMasks", "andMasks", "subtractMasks", "invertMask"} =>
        operandsOf(mask) = operandsOf(prev)

C29_Witness ==
    /\ op = "subtractMasks"
    /\ res = Thrown("Error")
    /\ operandsOf(mask) = [a |-> Mp("a" :> Date), b |-> Mp("a" :> EmptyObj)]
    /\ Len(mask.heap) > Len(prev.heap)

\* the objects a cell reaches are maps, and the scalars booleans
RECURSIVE onlyBooleansAndMaps(_, _)
onlyBooleansAndMaps(h, cell) ==
    IF isRef(cell)
        THEN /\ ~isArrayRef(h, cell)
             /\ \A key \in DOMAIN h[cell.r] : onlyBooleansAndMaps(h, h[cell.r][key])
        ELSE cell \in {True, False}

\* C30: well-formedness is an invariant of the mutators: from a mask
\* constructed from a tree of booleans, maps and single-element arrays on,
\* after every addField, removeField of a path without wildcard and
\* subtractMask of a boolean-leaved mask, whether the call returns or fails,
\* the tree holds booleans and maps only and validate() returns true
C30_MutatorsKeepWellFormed ==
    op \in {"addField", "removeField", "subtractMask"} =>
        /\ onlyBooleansAndMaps(mask.heap, mask.original)
        /\ validate(treeOf(mask.heap, mask.original))

\* the array inside the array of the source is an array of the tree still
C30_Witness ==
    /\ op = "addField"
    /\ arg = PathArg(<<"b">>)
    /\ ~mask.first
    /\ treeOf(mask.heap, mask.original)
            = Mp(("a" :> Mp("_" :> Ar(<<True>>))) @@ ("b" :> True))
    /\ validate(treeOf(mask.heap, mask.original))

\* C30, from a tree of booleans and maps on
C30_MutatorsKeepWellFormedOfMaps ==
    (/\ op \in {"addField", "removeField", "subtractMask"}
     /\ \A addr \in 1..Len(mask.heap) : "length" \notin DOMAIN mask.heap[addr]) =>
        /\ onlyBooleansAndMaps(mask.heap, mask.original)
        /\ validate(treeOf(mask.heap, mask.original))


============================================================================
